---- MODULE Spec2Model ----
(***************************************************************************)
(* Drawflow editor (src/unnamed/part_000): the graph store                 *)
(* this.drawflow.drawflow[module].data[id], the part of the DOM the        *)
(* handlers read back (node/port elements and connection elements with     *)
(* their class lists), and the handlers that mutate both.                  *)
(*                                                                         *)
(* Conventions.                                                            *)
(*  - A port name "input_k"/"output_k" is the integer k; a JS object of    *)
(*    ports is a sequence of [name, connections] in key (insertion) order. *)
(*  - A node id is an integer; 0 stands for "no id"/null.                  *)
(*  - A handler is an operator from an editor record s to the editor       *)
(*    record it leaves. An uncaught TypeError is ret.kind = "throw": the   *)
(*    record then holds exactly the assignments made before the throw.     *)
(*  - JS index -1 (findIndex found nothing) is index 0 here.               *)
(*                                                                         *)
(* Environment.                                                            *)
(*  - The host calls the API between mouse gestures, never between the     *)
(*    mousedown and the mouseup of one gesture.                            *)
(*  - An exception does not end the page: the host may go on calling the   *)
(*    editor in the state the throwing handler left. Behaviours are        *)
(*    followed until more than MaxThrows handlers have thrown.             *)
(*  - Listeners are the functions of Callbacks; none is registered until   *)
(*    on() is called. dispatched records every dispatch and heard every    *)
(*    listener call made by the last handler.                              *)
(***************************************************************************)
EXTENDS Integers, Sequences, FiniteSets, TLC

\* ---- bounds of the model -------------------------------------------------
MaxNodes == 2      \* addNode is taken while nodeId <= MaxNodes
MaxArity == 1      \* addNode(num_in, num_out) with num_in, num_out in 0..MaxArity
MaxPorts == 2      \* port names used as arguments: 1..MaxPorts
MaxConns == 2      \* addConnection / drag are taken while fewer entries are stored
MaxThrows == 1     \* handlers are run until more than MaxThrows of them have thrown
MaxListeners == 3  \* on() is taken while fewer listeners are registered
MaxPoints == 3     \* a connection element has up to MaxPoints reroute points
MaxZoom == 1       \* zoom_in / zoom_out are taken within MaxZoom steps of zoom 1

ModuleNames == {"Home", "Other"}
Undefined == "undefined"
Ids == 1..MaxNodes
PortIds == 1..MaxPorts

VARIABLES
  drawflow,      \* this.drawflow.drawflow: module name -> (node id -> node)
  modkeys,       \* key order of this.drawflow.drawflow (Object.keys)
  module,        \* this.module
  nodeId,        \* this.nodeId
  domNodes,      \* precanvas: node id -> [inputs, outputs] port element classes
  domConns,      \* precanvas: svg.connection elements in document order
  connection,    \* this.connection
  ele_selected,  \* this.ele_selected (an output port element, or null)
  mouseDown,     \* a mousedown was delivered and its mouseup was not yet
  call,          \* the handler that ran last, with its arguments
  ret,           \* what it returned ("throw": it threw)
  dispatched,    \* the events it dispatched, in order
  events,        \* this.events: event name -> listeners in registration order
  heard,         \* the listener calls it made: who, for what, and the store then
  throws,        \* how many handlers have thrown so far
  allocated,     \* the highest id addNode has returned so far (0: none)
  held,          \* the object the host keeps a reference to (kind "none": none)
  view,          \* canvas_x .. zoom_last_value and editor_selected of this
  useuuid,       \* this.useuuid
  ui             \* node_selected, drag, drag_point and connection_ele of this

vars == <<drawflow, modkeys, module, nodeId, domNodes, domConns, connection,
          ele_selected, mouseDown, call, ret, dispatched, events, heard, throws,
          allocated, held, view, useuuid, ui>>

\* ---- JS objects and arrays ----------------------------------------------
Has(obj, k) == \E i \in 1..Len(obj) : obj[i].name = k
Idx(obj, k) == CHOOSE i \in 1..Len(obj) : obj[i].name = k
Get(obj, k) == obj[Idx(obj, k)].connections
Put(obj, k, c) ==
  IF Has(obj, k) THEN [obj EXCEPT ![Idx(obj, k)].connections = c]
  ELSE Append(obj, [name |-> k, connections |-> c])
Del(obj, k) == SelectSeq(obj, LAMBDA p : p.name # k)

\* Array.prototype.findIndex for the test (item.node == n && item.<port> === p)
FindEntry(conns, n, p) ==
  IF \E i \in 1..Len(conns) : conns[i].node = n /\ conns[i].port = p
  THEN CHOOSE i \in 1..Len(conns) :
         /\ conns[i].node = n /\ conns[i].port = p
         /\ \A j \in 1..(i-1) : ~(conns[j].node = n /\ conns[j].port = p)
  ELSE 0

\* Array.prototype.splice(i, 1); index -1 (0 here) counts from the end
Splice1(seq, i) ==
  LET j == IF i = 0 THEN Len(seq) ELSE i
  IN IF j = 0 THEN seq
     ELSE SubSeq(seq, 1, j - 1) \o SubSeq(seq, j + 1, Len(seq))

Max(S) == CHOOSE x \in S : \A y \in S : y <= x

\* the object f with the keys in S alone
RECURSIVE Restrict(_, _)
Restrict(f, S) ==
  IF S = {} THEN << >>
  ELSE LET x == CHOOSE y \in S : TRUE IN (x :> f[x]) @@ Restrict(f, S \ {x})

\* ---- object identity -----------------------------------------------------
\* An object is told from another by a number. 0 is the object graph under
\* this.drawflow: the object itself and the node objects inside it.
StoreObject == 0

JSONcopySame(obj) == obj

\* JSON.parse(JSON.stringify(x)) builds an object that shares nothing with x
JSONcopy(obj) == obj + 1

\* ---- the editor record ---------------------------------------------------
NoEle == [node |-> 0, cls |-> 0]

\* lines 63, 69, 75, 81, 111, 129: node_selected is the id of the node element it refers
\* to (0: null), connection_ele is TRUE when it refers to an element
uiDefaults ==
  [node_selected |-> 0, drag |-> FALSE, drag_point |-> FALSE, connection_ele |-> FALSE,
   reroute |-> FALSE, reroute_fix_curvature |-> FALSE]

\* the values Math.floor(Math.random() * 0x10) takes in the 36 rounds of the
\* loop of getUuid; none where a handler is run that does not call it
NoDraws == <<>>

Editor ==
  [drawflow |-> drawflow, modkeys |-> modkeys, module |-> module,
   nodeId |-> nodeId, domNodes |-> domNodes, domConns |-> domConns,
   connection |-> connection, ele_selected |-> ele_selected,
   ret |-> [kind |-> "void", val |-> 0], dispatched |-> <<>>,
   events |-> events, heard |-> <<>>, busy |-> FALSE, obj |-> StoreObject,
   view |-> view, useuuid |-> useuuid, random |-> NoDraws, ui |-> ui]

Thrown(s) == s.ret.kind = "throw"
Throw(s) == [s EXCEPT !.ret = [kind |-> "throw", val |-> 0]]
Return(s, k, v) == IF Thrown(s) THEN s ELSE [s EXCEPT !.ret = [kind |-> k, val |-> v]]
Void(s) == IF Thrown(s) THEN s ELSE Return(s, "void", 0)

\* ---- events (lines 2371-2429) -----------------------------------------------
\* the functions the host registers as listeners:
\*   noteA, noteB  look at the editor and return
\*   fail          throws
\*   leave         removes itself with removeListener and returns
\*   again         calls addNode, unless it is running already
\*   drop          removes the listener noteB with removeListener and returns
Callbacks == {"noteA", "noteB", "fail", "leave", "again", "drop"}

\* typeof v for the values the host passes: a function of Callbacks, the value
\* undefined, the number 7, null, and a string otherwise
typeOf(v) ==
  CASE v \in Callbacks -> "function"
    [] v = Undefined -> "undefined"
    [] v = "7" -> "number"
    [] v = "null" -> "object"
    [] OTHER -> "string"

\* this.events[event].listeners.push(callback), this.events[event] created first
\* when it is undefined (lines 2383-2388)
pushListener(s, event, callback) ==
  [s EXCEPT !.events = IF event \in DOMAIN @
                       THEN [@ EXCEPT ![event] = Append(@, callback)]
                       ELSE (event :> <<callback>>) @@ @]

onUnchecked(s, event, callback) == pushListener(s, event, callback)

on(s, event, callback) ==
  IF typeOf(callback) # "function" THEN Return(s, "bool", FALSE)
  ELSE IF typeOf(event) # "string" THEN Return(s, "bool", FALSE)
  ELSE pushListener(s, event, callback)

\* listeners.lastIndexOf(callback), 0 for -1
IndexOfLast(listeners, callback) ==
  IF \E i \in 1..Len(listeners) : listeners[i] = callback
  THEN Max({i \in 1..Len(listeners) : listeners[i] = callback})
  ELSE 0

\* listeners.indexOf(callback), 0 for -1
IndexOf(listeners, callback) ==
  IF \E i \in 1..Len(listeners) : listeners[i] = callback
  THEN CHOOSE i \in 1..Len(listeners) :
         listeners[i] = callback /\ \A j \in 1..(i-1) : listeners[j] # callback
  ELSE 0

removeListener(s, event, callback) ==
  IF event \notin DOMAIN s.events THEN Return(s, "bool", FALSE)
  ELSE LET listenerIndex == IndexOf(s.events[event], callback)
       IN IF listenerIndex = 0 THEN s
          ELSE [s EXCEPT !.events[event] = Splice1(@, listenerIndex)]

RECURSIVE addNode(_, _, _)

\* listener(details): what the registered function does when it is called
callListener(s, listener, event, args) ==
  LET s1 == [s EXCEPT !.heard = Append(@, [listener |-> listener, event |-> event,
                                           args |-> args, drawflow |-> s.drawflow,
                                           nodeId |-> s.nodeId, module |-> s.module])]
      s2 == CASE listener = "fail" -> Throw(s1)
               [] listener = "leave" -> removeListener(s1, event, listener)
               [] listener = "drop" -> removeListener(s1, event, "noteB")
               [] listener = "again" /\ ~s1.busy ->
                    [addNode([s1 EXCEPT !.busy = TRUE], 0, 0) EXCEPT !.busy = FALSE]
               [] OTHER -> s1
  IN IF Thrown(s2) THEN s2 ELSE [s2 EXCEPT !.ret = s.ret]

\* Array.prototype.forEach over the listeners array: indices 1..len as counted
\* when the loop started, each read from the array as it is when reached
RECURSIVE forEachListener(_, _, _, _, _)
forEachListener(s, event, args, k, len) ==
  IF Thrown(s) \/ k > len THEN s
  ELSE IF k > Len(s.events[event]) THEN forEachListener(s, event, args, k + 1, len)
  ELSE forEachListener(callListener(s, s.events[event][k], event, args),
                       event, args, k + 1, len)

\* this.dispatch(event, details); dispatched records the call
dispatch(s, name, args) ==
  LET s1 == [s EXCEPT !.dispatched = Append(@, [name |-> name, args |-> args])]
  IN IF name \notin DOMAIN s1.events THEN s1
     ELSE forEachListener(s1, name, args, 1, Len(s1.events[name]))

\* dispatch called by the host: false for an event nobody registered for
dispatchCall(s, name, args) ==
  IF name \notin DOMAIN s.events THEN Return(dispatch(s, name, args), "bool", FALSE)
  ELSE dispatch(s, name, args)

HasModule(s, m) == m \in DOMAIN s.drawflow
HasNode(s, m, id) == HasModule(s, m) /\ id \in DOMAIN s.drawflow[m]

getModuleFromNodeId(s, id) ==
  LET hits == {i \in 1..Len(s.modkeys) : id \in DOMAIN s.drawflow[s.modkeys[i]]}
  IN IF hits = {} THEN Undefined ELSE s.modkeys[Max(hits)]

SetOutputs(s, m, id, k, conns) ==
  [s EXCEPT !.drawflow[m][id].outputs = Put(@, k, conns)]
SetInputs(s, m, id, k, conns) ==
  [s EXCEPT !.drawflow[m][id].inputs = Put(@, k, conns)]

\* ---- the DOM the handlers query -------------------------------------------
\* container.querySelector('#node-'+id+' .inputs .input.input_'+k) etc.
DomHasNode(s, id) == id \in DOMAIN s.domNodes
DomHasInput(s, id, k) ==
  DomHasNode(s, id) /\ \E i \in 1..Len(s.domNodes[id].inputs) : s.domNodes[id].inputs[i] = k
DomHasOutput(s, id, k) ==
  DomHasNode(s, id) /\ \E i \in 1..Len(s.domNodes[id].outputs) : s.domNodes[id].outputs[i] = k

\* an svg.connection: its classes and its children, which are paths main-path
\* elements followed by the circle.point elements with the coordinates points;
\* swapped: the first two paths hold the last curve and the first curve
ConnEle(in, out, oc, ic) ==
  [node_in |-> in, node_out |-> out, output_class |-> oc, input_class |-> ic,
   paths |-> 1, points |-> <<>>, swapped |-> FALSE]
HasClasses(e, in, out, oc, ic) ==
  e.node_in = in /\ e.node_out = out /\ e.output_class = oc /\ e.input_class = ic
\* the svg drawConnection creates carries the class "connection" alone
PendingEle == ConnEle(0, 0, 0, 0)

\* querySelector('.connection.node_in_node-I.node_out_node-O.output_P.input_Q'):
\* index of the first match in document order, 0 for null
DomFind(s, in, out, oc, ic) ==
  IF \E i \in 1..Len(s.domConns) : HasClasses(s.domConns[i], in, out, oc, ic)
  THEN CHOOSE i \in 1..Len(s.domConns) :
         /\ HasClasses(s.domConns[i], in, out, oc, ic)
         /\ \A j \in 1..(i-1) : ~HasClasses(s.domConns[j], in, out, oc, ic)
  ELSE 0

\* updateConnectionNodes(id) reads the port elements at both ends of every
\* connection element of node id; it throws when one of them is missing.
\* It writes path geometry only: the curves of the connections leaving id
\* (lines 1076-1196) and then those of the connections entering id (lines
\* 1221-1344), which for one reroute point are pushed last curve first
\* (lines 1226-1259) and written to the paths in that order when
\* reroute_fix_curvature is set (lines 1327-1330).
EleDrawable(s, e) ==
  /\ DomHasOutput(s, e.node_out, e.output_class)
  /\ DomHasInput(s, e.node_in, e.input_class)
updateConnectionNodesThrows(s, id) ==
  \E i \in 1..Len(s.domConns) :
    /\ s.domConns[i].node_out = id \/ s.domConns[i].node_in = id
    /\ ~EleDrawable(s, s.domConns[i])
RECURSIVE Redrawn(_, _, _)
Redrawn(conns, id, fix) ==
  IF conns = <<>> THEN <<>>
  ELSE LET e == conns[1]
       IN <<IF e.node_in = id THEN [e EXCEPT !.swapped = fix /\ Len(e.points) = 1]
            ELSE IF e.node_out = id THEN [e EXCEPT !.swapped = FALSE]
            ELSE e>> \o Redrawn(Tail(conns), id, fix)
updateConnectionNodes(s, id) ==
  IF updateConnectionNodesThrows(s, id) THEN Throw(s)
  ELSE IF \A i \in 1..Len(s.domConns) : ~s.domConns[i].swapped /\ s.domConns[i].points = <<>>
       THEN s
  ELSE [s EXCEPT !.domConns = Redrawn(@, id, s.ui.reroute_fix_curvature)]

\* ---- connection paths (lines 891-938, 1053-1344) ------------------------------
\* A coordinate is an integer multiple of 10 and a curvature is given in tenths
\* (5 is 0.5), so that |x1 - x0| * curvature is an integer. The string
\* ' M x0 y0 C hx1 y0 hx2 y1 x1  y1' is the sequence of its eight numbers.
AbsSigned(n) == n

\* Math.abs(n)
Abs(n) == IF n < 0 THEN -n ELSE n

\* d * curvature
Scaled(d, curvature) == (d * curvature) \div 10

\* if(start_pos_x >= end_pos_x)
leftward(start_pos_x, end_pos_x) == start_pos_x >= end_pos_x

createCurvatureDefault(start_pos_x, start_pos_y, end_pos_x, end_pos_y, curvature_value, type) ==
  <<start_pos_x, start_pos_y,
    start_pos_x + Scaled(Abs(end_pos_x - start_pos_x), curvature_value), start_pos_y,
    end_pos_x - Scaled(Abs(end_pos_x - start_pos_x), curvature_value), end_pos_y,
    end_pos_x, end_pos_y>>

createCurvature(start_pos_x, start_pos_y, end_pos_x, end_pos_y, curvature_value, type) ==
  LET line_x == start_pos_x
      line_y == start_pos_y
      x == end_pos_x
      y == end_pos_y
      curvature == curvature_value
      flip == leftward(start_pos_x, end_pos_x)
      hx1 == CASE type = "open" -> line_x + Scaled(Abs(x - line_x), curvature)
               [] type = "close" /\ flip -> line_x + Scaled(Abs(x - line_x), curvature * (-1))
               [] type = "close" /\ ~flip -> line_x + Scaled(Abs(x - line_x), curvature)
               [] type = "other" /\ flip -> line_x + Scaled(Abs(x - line_x), curvature * (-1))
               [] type = "other" /\ ~flip -> line_x + Scaled(Abs(x - line_x), curvature)
               [] OTHER -> line_x + Scaled(Abs(x - line_x), curvature)
      hx2 == CASE type = "open" /\ flip -> x - Scaled(Abs(x - line_x), curvature * (-1))
               [] type = "open" /\ ~flip -> x - Scaled(Abs(x - line_x), curvature)
               [] type = "close" -> x - Scaled(Abs(x - line_x), curvature)
               [] type = "other" /\ flip -> x - Scaled(Abs(x - line_x), curvature * (-1))
               [] type = "other" /\ ~flip -> x - Scaled(Abs(x - line_x), curvature)
               [] OTHER -> x - Scaled(Abs(x - line_x), curvature)
  IN <<line_x, line_y, hx1, line_y, hx2, y, x, y>>

\* the options the paths are drawn with (each is 0.5 in a new editor, lines
\* 87-99; the host sets them apart here)
curvature == 5
reroute_curvature_start_end == 3
reroute_curvature == 7

\* createCurvature between two positions <<x, y>>
Curve(from, to, curvature_value, type) ==
  createCurvature(from[1], from[2], to[1], to[2], curvature_value, type)

\* points.forEach of the connections leaving the node (lines 1079-1186): the
\* curves pushed to reoute_fix for point i (points[i-1] of the code), anchorOut
\* and anchorIn being the centres of the output and the input port element
RECURSIVE pointsOut(_, _, _, _)
pointsOut(anchorOut, anchorIn, points, i) ==
  IF i > Len(points) THEN <<>>
  ELSE (IF i = 1 /\ Len(points) = 1
        THEN <<Curve(anchorOut, points[i], reroute_curvature_start_end, "open"),
               Curve(points[i], anchorIn, reroute_curvature_start_end, "close")>>
        ELSE IF i = 1
        THEN <<Curve(anchorOut, points[i], reroute_curvature_start_end, "open"),
               Curve(points[i], points[i + 1], reroute_curvature, "other")>>
        ELSE IF i = Len(points)
        THEN <<Curve(points[i], anchorIn, reroute_curvature_start_end, "close")>>
        ELSE <<Curve(points[i], points[i + 1], reroute_curvature, "other")>>)
       \o pointsOut(anchorOut, anchorIn, points, i + 1)

\* points.forEach of the connections entering the node (lines 1224-1333)
RECURSIVE pointsIn(_, _, _, _)
pointsIn(anchorOut, anchorIn, points, i) ==
  IF i > Len(points) THEN <<>>
  ELSE (IF i = 1 /\ Len(points) = 1
        THEN <<Curve(points[i], anchorIn, reroute_curvature_start_end, "close"),
               Curve(anchorOut, points[i], reroute_curvature_start_end, "open")>>
        ELSE IF i = 1
        THEN <<Curve(anchorOut, points[i], reroute_curvature_start_end, "open"),
               Curve(points[i], points[i + 1], reroute_curvature, "other")>>
        ELSE IF i = Len(points)
        THEN <<Curve(points[i], anchorIn, reroute_curvature_start_end, "close")>>
        ELSE <<Curve(points[i], points[i + 1], reroute_curvature, "other")>>)
       \o pointsIn(anchorOut, anchorIn, points, i + 1)

\* linecurve: the curves of reoute_fix appended to one string
RECURSIVE Concat(_)
Concat(reoute_fix) ==
  IF reoute_fix = <<>> THEN <<>> ELSE reoute_fix[1] \o Concat(Tail(reoute_fix))

reouteFixOutEnds(anchorOut, anchorIn, points) ==
  <<Curve(anchorOut, points[1], reroute_curvature_start_end, "open"),
    Curve(points[Len(points)], anchorIn, reroute_curvature_start_end, "close")>>

reouteFixOut(anchorOut, anchorIn, points) == pointsOut(anchorOut, anchorIn, points, 1)

\* the d attributes of the path elements of one connection element after
\* updateConnectionNodes(id): side "out" when the connection leaves node id,
\* "in" when it enters it. The element has one path element, and one per
\* curve when reroute_fix_curvature is set.
pathsWritten(side, reroute_fix_curvature, anchorOut, anchorIn, points) ==
  IF points = <<>>
  THEN <<Curve(anchorOut, anchorIn, curvature, "openclose")>>
  ELSE LET reoute_fix == IF side = "out" THEN reouteFixOut(anchorOut, anchorIn, points)
                         ELSE pointsIn(anchorOut, anchorIn, points, 1)
       IN IF reroute_fix_curvature THEN reoute_fix ELSE <<Concat(reoute_fix)>>

\* ---- getNodeFromId ---------------------------------------------------------
getNodeFromId(s, id) ==
  LET moduleName == getModuleFromNodeId(s, id)
  IN IF moduleName = Undefined THEN Throw(s)
     ELSE [Return(s, "node", s.drawflow[moduleName][id]) EXCEPT !.obj = JSONcopy(StoreObject)]

\* ---- addNode (lines 1522-1649) ----------------------------------------------
\* for(var x = 0; x < n; x++): no round for n <= 0
RECURSIVE NewPorts(_)
NewPorts(n) ==
  IF n <= 0 THEN <<>> ELSE Append(NewPorts(n - 1), [name |-> n, connections |-> <<>>])
RECURSIVE NewPortEles(_)
NewPortEles(n) == IF n <= 0 THEN <<>> ELSE Append(NewPortEles(n - 1), n)

nodeIdSame(n) == n

\* lines 2440-2453; s[i] of the code is s[i + 1] here
hexDigits == <<"0", "1", "2", "3", "4", "5", "6", "7",
               "8", "9", "a", "b", "c", "d", "e", "f">>

\* hexDigits.substr(n, 1)
substr(n) == hexDigits[n + 1]

\* c & 0x3 for a character c of hexDigits: a decimal digit is converted to its
\* value, a letter to NaN and so to 0
and3(c) ==
  LET n == CHOOSE i \in 0..15 : hexDigits[i + 1] = c
  IN IF n <= 9 THEN n % 4 ELSE 0

or8Skipped(n) == n

\* n | 0x8 for n in 0..3
or8(n) == n + 8

getUuid(s) ==
  LET s0 == [i \in 1..36 |-> substr(s.random[i])]
      s14 == [s0 EXCEPT ![15] = "4"]
      s19 == [s14 EXCEPT ![20] = substr(or8(and3(s14[20])))]
  IN [s19 EXCEPT ![9] = "-", ![14] = "-", ![19] = "-", ![24] = "-"]

\* line 1646: this.nodeId++
nodeIdIncrement(n) == n + 1

\* lines 1528-1649, with the id of lines 1523-1527
addNodeAs(s, newNodeId, num_in, num_out) ==
  LET json == [data |-> 0, inputs |-> NewPorts(num_in), outputs |-> NewPorts(num_out)]
      \* this.precanvas.appendChild(parent)
      s1 == [s EXCEPT !.domNodes =
               (newNodeId :> [inputs |-> NewPortEles(num_in),
                              outputs |-> NewPortEles(num_out)]) @@ @]
  IN IF ~HasModule(s1, s1.module) THEN Throw(s1)
     ELSE LET s2 == [s1 EXCEPT !.drawflow[s1.module] = (newNodeId :> json) @@ @]
              s3 == dispatch(s2, "nodeCreated", <<newNodeId>>)
              \* lines 1645-1647; no listener assigns useuuid
              s4 == [s3 EXCEPT !.nodeId = IF s.useuuid THEN @ ELSE nodeIdIncrement(@)]
          IN IF Thrown(s3) THEN s3 ELSE Return(s4, "id", newNodeId)

addNode(s, num_in, num_out) ==
  addNodeAs(s, IF s.useuuid THEN getUuid(s) ELSE s.nodeId, num_in, num_out)

\* ---- addConnection (lines 989-1029) -----------------------------------------
connectionListedNever(conns, id_input, input_class) == FALSE

\* lines 995-1001: exist, after the loop over the output port's connections
connectionListed(conns, id_input, input_class) == FindEntry(conns, id_input, input_class) # 0

addConnection(s, id_output, id_input, output_class, input_class) ==
  LET nodeOneModule == getModuleFromNodeId(s, id_output)
      nodeTwoModule == getModuleFromNodeId(s, id_input)
  IN IF nodeOneModule # nodeTwoModule THEN s
     ELSE IF nodeOneModule = Undefined THEN Throw(s)            \* getNodeFromId
     ELSE LET dataNode == s.drawflow[nodeOneModule][id_output]
          IN IF ~Has(dataNode.outputs, output_class) THEN Throw(s)   \* line 996
             ELSE LET exist == connectionListed(Get(dataNode.outputs, output_class),
                                                id_input, input_class)
                  IN IF exist THEN s
                     ELSE LET s1 == SetOutputs(s, nodeOneModule, id_output, output_class,
                                       Append(Get(dataNode.outputs, output_class),
                                              [node |-> id_input, port |-> input_class]))
                          IN IF ~Has(s1.drawflow[nodeOneModule][id_input].inputs, input_class)
                             THEN Throw(s1)                          \* line 1006
                             ELSE LET s2 == SetInputs(s1, nodeOneModule, id_input, input_class,
                                               Append(Get(s1.drawflow[nodeOneModule][id_input].inputs,
                                                          input_class),
                                                      [node |-> id_output, port |-> output_class]))
                                      s3 == IF s2.module = nodeOneModule
                                            THEN updateConnectionNodes(
                                                   updateConnectionNodes(
                                                     [s2 EXCEPT !.domConns =
                                                        Append(@, ConnEle(id_input, id_output,
                                                                          output_class, input_class))],
                                                     id_output),
                                                   id_input)
                                            ELSE s2
                                  IN IF Thrown(s3) THEN s3
                                     ELSE dispatch(s3, "connectionCreated",
                                            <<id_output, id_input, output_class, input_class>>)

\* ---- removeSingleConnection (lines 2153-2189) --------------------------------
DomRemoveConn(s, i) == [s EXCEPT !.domConns = Splice1(@, i)]

removeSingleConnection(s, id_output, id_input, output_class, input_class) ==
  LET nodeOneModule == getModuleFromNodeId(s, id_output)
      nodeTwoModule == getModuleFromNodeId(s, id_input)
  IN IF nodeOneModule # nodeTwoModule THEN Return(s, "bool", FALSE)
     ELSE IF nodeOneModule = Undefined THEN Throw(s)
     ELSE IF ~Has(s.drawflow[nodeOneModule][id_output].outputs, output_class) THEN Throw(s)
     ELSE LET outs == Get(s.drawflow[nodeOneModule][id_output].outputs, output_class)
              exists == FindEntry(outs, id_input, input_class)
              ele == DomFind(s, id_input, id_output, output_class, input_class)
          IN IF exists = 0 THEN Return(s, "bool", FALSE)
             ELSE IF s.module = nodeOneModule /\ ele = 0 THEN Throw(s)   \* null.remove()
             ELSE LET s1 == IF s.module = nodeOneModule THEN DomRemoveConn(s, ele) ELSE s
                      s2 == SetOutputs(s1, nodeOneModule, id_output, output_class,
                                       Splice1(outs, exists))
                  IN IF ~Has(s2.drawflow[nodeOneModule][id_input].inputs, input_class)
                     THEN Throw(s2)                                      \* line 2175
                     ELSE LET ins == Get(s2.drawflow[nodeOneModule][id_input].inputs, input_class)
                              index_in == FindEntry(ins, id_output, output_class)
                              s3 == SetInputs(s2, nodeOneModule, id_input, input_class,
                                              Splice1(ins, index_in))
                          IN Return(dispatch(s3, "connectionRemoved",
                                      <<id_output, id_input, output_class, input_class>>),
                                    "bool", TRUE)

\* ---- addNodeInput / addNodeOutput (lines 1896-1936) ---------------------------
addNodeInput(s, id) ==
  LET moduleName == getModuleFromNodeId(s, id)
  IN IF moduleName = Undefined THEN Throw(s)                    \* getNodeFromId
     ELSE LET numInputs == Len(s.drawflow[moduleName][id].inputs)
              s1 == IF s.module = moduleName
                    THEN IF ~DomHasNode(s, id) THEN Throw(s)    \* parent is null
                         ELSE updateConnectionNodes(
                                [s EXCEPT !.domNodes[id].inputs = Append(@, numInputs + 1)], id)
                    ELSE s
          IN IF Thrown(s1) THEN s1
             ELSE SetInputs(s1, moduleName, id, numInputs + 1, <<>>)

addNodeOutput(s, id) ==
  LET moduleName == getModuleFromNodeId(s, id)
  IN IF moduleName = Undefined THEN Throw(s)
     ELSE LET numOutputs == Len(s.drawflow[moduleName][id].outputs)
              s1 == IF s.module = moduleName
                    THEN IF ~DomHasNode(s, id) THEN Throw(s)
                         ELSE updateConnectionNodes(
                                [s EXCEPT !.domNodes[id].outputs = Append(@, numOutputs + 1)], id)
                    ELSE s
          IN IF Thrown(s1) THEN s1
             ELSE SetOutputs(s1, moduleName, id, numOutputs + 1, <<>>)

\* ---- removeNodeInput / removeNodeOutput (lines 1948-2102) ---------------------
RECURSIVE Renumber(_)
RenumberKeepsNames(obj) == obj

\* connections.forEach((item, i) => inputs['input_'+(i+1)] = item)
Renumber(obj) ==
  IF obj = <<>> THEN <<>>
  ELSE Append(Renumber(SubSeq(obj, 1, Len(obj) - 1)),
              [name |-> Len(obj), connections |-> obj[Len(obj)].connections])

RECURSIVE Flatten(_)
Flatten(obj) == IF obj = <<>> THEN <<>> ELSE obj[1].connections \o Flatten(Tail(obj))

\* Array.from(new Set(list.map(JSON.stringify))).map(JSON.parse)
RECURSIVE Dedup(_)
Dedup(seq) ==
  IF seq = <<>> THEN <<>>
  ELSE LET r == Dedup(SubSeq(seq, 1, Len(seq) - 1))
           last == seq[Len(seq)]
       IN IF \E i \in 1..Len(r) : r[i] = last THEN r ELSE Append(r, last)

\* the connection entries every remaining port of the side holds, once each
NodeUpdates(obj) == Dedup(Flatten(obj))

\* nodeUpdates.push({ node: itemx.node, output: itemx.output }) (line 2059)
RECURSIVE NodeAndOutput(_)
NodeAndOutput(conns) ==
  IF conns = <<>> THEN <<>>
  ELSE <<[node |-> conns[1].node, port |-> conns[1].port]>> \o NodeAndOutput(Tail(conns))

\* eles.forEach: a port element whose class number is above k moves down by one
RECURSIVE RenameEles(_, _)
RenameEles(eles, k) ==
  IF eles = <<>> THEN <<>>
  ELSE <<IF k < eles[1] THEN eles[1] - 1 ELSE eles[1]>> \o RenameEles(Tail(eles), k)

\* querySelector('#node-'+id+' .inputs .input.input_'+k).remove(): the first match
RemoveEle(eles, k) ==
  Splice1(eles, CHOOSE i \in 1..Len(eles) :
                  eles[i] = k /\ \A j \in 1..(i-1) : eles[j] # k)

RECURSIVE removeInputs(_, _, _, _)
removeInputs(s, items, id, input_class) ==
  IF items = <<>> \/ Thrown(s) THEN s
  ELSE removeInputs(
         removeSingleConnection(s, items[1].node, id, items[1].port, input_class),
         Tail(items), id, input_class)

RECURSIVE removeOutputs(_, _, _, _)
removeOutputs(s, items, id, output_class) ==
  IF items = <<>> \/ Thrown(s) THEN s
  ELSE removeOutputs(
         removeSingleConnection(s, id, items[1].node, output_class, items[1].port),
         Tail(items), id, output_class)

\* { node: itemz.node, output: 'input_'+(output_id-1) }
rewrittenBare(itemz) == [node |-> itemz.node, port |-> itemz.port - 1]

\* lines 2007-2011: the entry that replaces itemz; an array is truthy
rewritten(itemz) ==
  IF "points" \in DOMAIN itemz
  THEN [node |-> itemz.node, port |-> itemz.port - 1, points |-> itemz.points]
  ELSE [node |-> itemz.node, port |-> itemz.port - 1]

\* lines 1998-2014: the entries of the remote output port itemx that name an
\* input of node id above the removed one are rewritten, entry g onwards
RECURSIVE rewriteRemoteOutput(_, _, _, _, _, _)
rewriteRemoteOutput(s, moduleName, id, k, itemx, g) ==
  LET conns == Get(s.drawflow[moduleName][itemx.node].outputs, itemx.port)
  IN IF Thrown(s) \/ g > Len(conns) THEN s
     ELSE IF conns[g].node = id /\ k < conns[g].port
     THEN LET ele == DomFind(s, id, itemx.node, itemx.port, conns[g].port)
              s1 == IF s.module = moduleName
                    THEN IF ele = 0 THEN Throw(s)            \* ele is null
                         ELSE [s EXCEPT !.domConns[ele].input_class = conns[g].port - 1]
                    ELSE s
          IN IF Thrown(s1) THEN s1
             ELSE rewriteRemoteOutput(
                    SetOutputs(s1, moduleName, itemx.node, itemx.port,
                               [conns EXCEPT ![g] = rewritten(@)]),
                    moduleName, id, k, itemx, g + 1)
     ELSE rewriteRemoteOutput(s, moduleName, id, k, itemx, g + 1)

RECURSIVE rewriteOutputs(_, _, _, _, _)
rewriteOutputs(s, moduleName, id, k, nodeUpdates) ==
  IF nodeUpdates = <<>> \/ Thrown(s) THEN s
  ELSE LET itemx == nodeUpdates[1]
       IN IF ~HasNode(s, moduleName, itemx.node) THEN Throw(s)
          ELSE IF ~Has(s.drawflow[moduleName][itemx.node].outputs, itemx.port) THEN Throw(s)
          ELSE rewriteOutputs(rewriteRemoteOutput(s, moduleName, id, k, itemx, 1),
                              moduleName, id, k, Tail(nodeUpdates))

\* lines 2079-2098, the same on the remote input ports
RECURSIVE rewriteRemoteInput(_, _, _, _, _, _)
rewriteRemoteInput(s, moduleName, id, k, itemx, g) ==
  LET conns == Get(s.drawflow[moduleName][itemx.node].inputs, itemx.port)
  IN IF Thrown(s) \/ g > Len(conns) THEN s
     ELSE IF conns[g].node = id /\ k < conns[g].port
     THEN LET ele == DomFind(s, itemx.node, id, conns[g].port, itemx.port)
              s1 == IF s.module = moduleName
                    THEN IF ele = 0 THEN Throw(s)
                         ELSE [s EXCEPT !.domConns[ele].output_class = conns[g].port - 1]
                    ELSE s
          IN IF Thrown(s1) THEN s1
             ELSE rewriteRemoteInput(
                    SetInputs(s1, moduleName, itemx.node, itemx.port,
                              [conns EXCEPT ![g].port = @ - 1]),
                    moduleName, id, k, itemx, g + 1)
     ELSE rewriteRemoteInput(s, moduleName, id, k, itemx, g + 1)

RECURSIVE rewriteInputs(_, _, _, _, _)
rewriteInputs(s, moduleName, id, k, nodeUpdates) ==
  IF nodeUpdates = <<>> \/ Thrown(s) THEN s
  ELSE LET itemx == nodeUpdates[1]
       IN IF ~HasNode(s, moduleName, itemx.node) THEN Throw(s)
          ELSE IF ~Has(s.drawflow[moduleName][itemx.node].inputs, itemx.port) THEN Throw(s)
          ELSE rewriteInputs(rewriteRemoteInput(s, moduleName, id, k, itemx, 1),
                             moduleName, id, k, Tail(nodeUpdates))

removeNodeInput(s, id, input_class) ==
  LET moduleName == getModuleFromNodeId(s, id)
  IN IF moduleName = Undefined THEN Throw(s)                     \* getNodeFromId
     ELSE IF s.module = moduleName /\ ~DomHasInput(s, id, input_class) THEN Throw(s)
     ELSE LET infoNode == s.drawflow[moduleName][id]
              s1 == IF s.module = moduleName
                    THEN [s EXCEPT !.domNodes[id].inputs = RemoveEle(@, input_class)]
                    ELSE s
          IN IF ~Has(infoNode.inputs, input_class) THEN Throw(s1)    \* line 1955
             ELSE LET s2 == removeInputs(s1, Get(infoNode.inputs, input_class),
                                         id, input_class)
                  IN IF Thrown(s2) THEN s2
                     ELSE LET connections == Del(s2.drawflow[moduleName][id].inputs, input_class)
                              s3 == [s2 EXCEPT !.drawflow[moduleName][id].inputs =
                                                  Renumber(connections)]
                              s4 == IF s3.module = moduleName /\ DomHasNode(s3, id)
                                    THEN [s3 EXCEPT !.domNodes[id].inputs =
                                                       RenameEles(@, input_class)]
                                    ELSE s3
                              s5 == rewriteOutputs(s4, moduleName, id, input_class,
                                                   NodeUpdates(connections))
                          IN Void(IF Thrown(s5) THEN s5 ELSE updateConnectionNodes(s5, id))

removeNodeOutput(s, id, output_class) ==
  LET moduleName == getModuleFromNodeId(s, id)
  IN IF moduleName = Undefined THEN Throw(s)
     ELSE IF s.module = moduleName /\ ~DomHasOutput(s, id, output_class) THEN Throw(s)
     ELSE LET infoNode == s.drawflow[moduleName][id]
              s1 == IF s.module = moduleName
                    THEN [s EXCEPT !.domNodes[id].outputs = RemoveEle(@, output_class)]
                    ELSE s
          IN IF ~Has(infoNode.outputs, output_class) THEN Throw(s1)  \* line 2036
             ELSE LET s2 == removeOutputs(s1, Get(infoNode.outputs, output_class),
                                          id, output_class)
                  IN IF Thrown(s2) THEN s2
                     ELSE LET connections == Del(s2.drawflow[moduleName][id].outputs, output_class)
                              s3 == [s2 EXCEPT !.drawflow[moduleName][id].outputs =
                                                  Renumber(connections)]
                              s4 == IF s3.module = moduleName /\ DomHasNode(s3, id)
                                    THEN [s3 EXCEPT !.domNodes[id].outputs =
                                                       RenameEles(@, output_class)]
                                    ELSE s3
                              s5 == rewriteInputs(s4, moduleName, id, output_class,
                                                  Dedup(NodeAndOutput(Flatten(connections))))
                          IN Void(IF Thrown(s5) THEN s5 ELSE updateConnectionNodes(s5, id))

\* ---- removeConnectionNodeId / removeNodeId (lines 2112-2120, 2199-2241) -------
\* data[listclass[1]].inputs[listclass[4]].connections.splice(findIndex(...), 1)
spliceInputSide(s, e) ==
  IF ~HasNode(s, s.module, e.node_in) THEN Throw(s)
  ELSE IF ~Has(s.drawflow[s.module][e.node_in].inputs, e.input_class) THEN Throw(s)
  ELSE LET ins == Get(s.drawflow[s.module][e.node_in].inputs, e.input_class)
       IN SetInputs(s, s.module, e.node_in, e.input_class,
                    Splice1(ins, FindEntry(ins, e.node_out, e.output_class)))

\* data[listclass[2]].outputs[listclass[3]].connections.splice(findIndex(...), 1)
spliceOutputSide(s, e) ==
  IF ~HasNode(s, s.module, e.node_out) THEN Throw(s)
  ELSE IF ~Has(s.drawflow[s.module][e.node_out].outputs, e.output_class) THEN Throw(s)
  ELSE LET outs == Get(s.drawflow[s.module][e.node_out].outputs, e.output_class)
       IN SetOutputs(s, s.module, e.node_out, e.output_class,
                     Splice1(outs, FindEntry(outs, e.node_in, e.input_class)))

\* for (i = elems.length-1; i >= 0; i--): the elements of class node_out_<id>
\* (outSide) or node_in_<id>, last one first; each is removed once handled
RECURSIVE removeConnectionEles(_, _, _)
removeConnectionEles(s, id, outSide) ==
  LET hits == {i \in 1..Len(s.domConns) :
                 IF outSide THEN s.domConns[i].node_out = id
                            ELSE s.domConns[i].node_in = id}
  IN IF Thrown(s) \/ hits = {} THEN s
     ELSE LET i == Max(hits)
              e == s.domConns[i]
              s1 == IF outSide THEN spliceInputSide(s, e) ELSE spliceOutputSide(s, e)
              s2 == IF Thrown(s1) THEN s1
                    ELSE IF outSide THEN spliceOutputSide(s1, e) ELSE spliceInputSide(s1, e)
          IN IF Thrown(s2) THEN s2
             ELSE removeConnectionEles(
                    dispatch(DomRemoveConn(s2, i), "connectionRemoved",
                             <<e.node_out, e.node_in, e.output_class, e.input_class>>),
                    id, outSide)

removeConnectionNodeId(s, id) ==
  removeConnectionEles(removeConnectionEles(s, id, TRUE), id, FALSE)

removeNodeId(s, id) ==
  LET s1 == removeConnectionNodeId(s, id)
      moduleName == getModuleFromNodeId(s1, id)
  IN IF Thrown(s1) THEN s1
     ELSE IF s1.module = moduleName /\ ~DomHasNode(s1, id) THEN Throw(s1)  \* null.remove()
     ELSE IF moduleName = Undefined THEN Throw(s1)            \* drawflow[undefined].data
     ELSE LET s2 == IF s1.module = moduleName
                    THEN [s1 EXCEPT !.domNodes = Restrict(@, DOMAIN @ \ {id})]
                    ELSE s1
              s3 == [s2 EXCEPT !.drawflow[moduleName] = Restrict(@, DOMAIN @ \ {id})]
          IN Void(dispatch(s3, "nodeRemoved", <<id>>))

\* ---- updateNodeDataFromId (lines 1842-1886) -----------------------------------
\* data is a non-empty object: its entries are written to the node's element
updateNodeDataFromId(s, id, data) ==
  LET moduleName == getModuleFromNodeId(s, id)
  IN IF moduleName = Undefined THEN Throw(s)
     ELSE LET s1 == [s EXCEPT !.drawflow[moduleName][id].data = data]
          IN IF s1.module = moduleName /\ ~DomHasNode(s1, id) THEN Throw(s1)  \* content is null
             ELSE s1

\* ---- modules (lines 417-446, 2272-2299, 2333-2368) ------------------------------
addModule(s, name) ==
  dispatch([s EXCEPT !.drawflow = (name :> << >>) @@ @,
                     !.modkeys = IF name \in DOMAIN s.drawflow THEN @ ELSE Append(@, name)],
           "moduleCreated", <<name>>)

RECURSIVE SortedSeq(_)
SortedSeq(S) ==
  IF S = {} THEN <<>>
  ELSE LET m == CHOOSE x \in S : \A y \in S : x <= y IN <<m>> \o SortedSeq(S \ {m})

\* addNodeImport draws one svg.connection per entry of the node's inputs
RECURSIVE ImportedPortConns(_, _, _)
ImportedPortConns(id, input_item, conns) ==
  IF conns = <<>> THEN <<>>
  ELSE <<ConnEle(id, conns[1].node, conns[1].port, input_item)>>
       \o ImportedPortConns(id, input_item, Tail(conns))

RECURSIVE ImportedInputConns(_, _)
ImportedInputConns(id, inputs) ==
  IF inputs = <<>> THEN <<>>
  ELSE ImportedPortConns(id, inputs[1].name, inputs[1].connections)
       \o ImportedInputConns(id, Tail(inputs))

RECURSIVE ImportedConns(_, _)
ImportedConns(data, ids) ==
  IF ids = <<>> THEN <<>>
  ELSE ImportedInputConns(ids[1], data[ids[1]].inputs) \o ImportedConns(data, Tail(ids))

AllIds(s) == UNION {DOMAIN s.drawflow[m] : m \in DOMAIN s.drawflow}

\* addNodeImport: one input element per key of inputs, under the key's name
RECURSIVE ImportedInputEles(_)
ImportedInputEles(inputs) ==
  IF inputs = <<>> THEN <<>> ELSE <<inputs[1].name>> \o ImportedInputEles(Tail(inputs))

\* addNodeImport for every node of data with its id in ids
RECURSIVE ImportedNodes(_, _)
ImportedNodes(data, ids) ==
  IF ids = {} THEN << >>
  ELSE LET id == CHOOSE x \in ids : TRUE
       IN (id :> [inputs |-> ImportedInputEles(data[id].inputs),
                  outputs |-> NewPortEles(Len(data[id].outputs))])
          @@ ImportedNodes(data, ids \ {id})

\* the connections addRerouteImport visits: those of every output of the nodes
RECURSIVE RerouteConns(_, _, _)
RerouteConns(id, output_item, conns) ==
  IF conns = <<>> THEN <<>>
  ELSE <<[id |-> id, output_item |-> output_item, conn |-> conns[1]]>>
       \o RerouteConns(id, output_item, Tail(conns))

RECURSIVE NodeRerouteConns(_, _)
NodeRerouteConns(id, outputs) ==
  IF outputs = <<>> THEN <<>>
  ELSE RerouteConns(id, outputs[1].name, outputs[1].connections)
       \o NodeRerouteConns(id, Tail(outputs))

RECURSIVE AllRerouteConns(_, _)
AllRerouteConns(data, ids) ==
  IF ids = <<>> THEN <<>>
  ELSE NodeRerouteConns(ids[1], data[ids[1]].outputs) \o AllRerouteConns(data, Tail(ids))

\* connections[i].points, [] for undefined
PointsOf(conn) == IF "points" \in DOMAIN conn THEN conn.points ELSE <<>>

\* addRerouteImport (lines 1770-1807) for the connections todo: the points of
\* each are appended to its svg, after as many new paths when
\* reroute_fix_curvature is set
RECURSIVE addRerouteImport(_, _)
addRerouteImport(s, todo) ==
  IF todo = <<>> \/ Thrown(s) THEN s
  ELSE LET t == todo[1]
           points == PointsOf(t.conn)
           ele == DomFind(s, t.conn.node, t.id, t.output_item, t.conn.port)
       IN IF points = <<>> THEN addRerouteImport(s, Tail(todo))
          ELSE IF ele = 0 THEN Throw(s)
          ELSE addRerouteImport(
                 [s EXCEPT !.domConns[ele].paths =
                             IF s.ui.reroute_fix_curvature THEN @ + Len(points) ELSE @,
                           !.domConns[ele].points = @ \o points],
                 Tail(todo))

load(s) ==
  IF ~HasModule(s, s.module) THEN Throw(s)
  ELSE LET data == s.drawflow[s.module]
           s0 == [s EXCEPT
                    !.domNodes = ImportedNodes(data, DOMAIN data) @@ @,
                    !.domConns = @ \o ImportedConns(data, SortedSeq(DOMAIN data))]
           s1 == IF s.ui.reroute
                 THEN addRerouteImport(s0, AllRerouteConns(data, SortedSeq(DOMAIN data)))
                 ELSE s0
       IN IF Thrown(s1) THEN s1
          ELSE IF \E id \in DOMAIN data : updateConnectionNodesThrows(s1, id) THEN Throw(s1)
          ELSE [s1 EXCEPT !.nodeId = IF AllIds(s1) = {} THEN 1 ELSE Max(AllIds(s1)) + 1]

clear(s) ==
  [s EXCEPT !.domNodes = << >>, !.domConns = <<>>,
            !.drawflow = ("Home" :> << >>), !.modkeys = <<"Home">>]

\* JSON.stringify: the modules in key order, in each the nodes by ascending id
\* (integer keys come first and sorted), in each node its ports in key order
RECURSIVE StringifyNodes(_, _)
StringifyNodes(data, ids) ==
  IF ids = <<>> THEN <<>>
  ELSE <<[id |-> ids[1], data |-> data[ids[1]].data,
          inputs |-> data[ids[1]].inputs, outputs |-> data[ids[1]].outputs]>>
       \o StringifyNodes(data, Tail(ids))

RECURSIVE JSONstringify(_, _)
JSONstringify(df, keys) ==
  IF keys = <<>> THEN <<>>
  ELSE <<[name |-> keys[1], data |-> StringifyNodes(df[keys[1]], SortedSeq(DOMAIN df[keys[1]]))]>>
       \o JSONstringify(df, Tail(keys))

\* JSON.parse: the object the text describes, keys in the order of the text
RECURSIVE ParseNodes(_)
ParseNodes(text) ==
  IF text = <<>> THEN << >>
  ELSE ParseNodes(SubSeq(text, 1, Len(text) - 1))
       @@ (text[Len(text)].id :> [data |-> text[Len(text)].data,
                                  inputs |-> text[Len(text)].inputs,
                                  outputs |-> text[Len(text)].outputs])

JSONparseNothing(text) == << >>

RECURSIVE JSONparse(_)
JSONparse(text) ==
  IF text = <<>> THEN << >>
  ELSE (text[1].name :> ParseNodes(text[1].data)) @@ JSONparse(Tail(text))

RECURSIVE ParsedKeys(_)
ParsedKeys(text) ==
  IF text = <<>> THEN <<>> ELSE <<text[1].name>> \o ParsedKeys(Tail(text))

import(s, data, keys, notifi) ==
  LET text == JSONstringify(data, keys)
      s1 == load([clear(s) EXCEPT !.drawflow = JSONparse(text), !.modkeys = ParsedKeys(text)])
  IN IF Thrown(s1) \/ ~notifi THEN s1 ELSE dispatch(s1, "import", <<"import">>)

\* the view state of a new editor (lines 141-183, 256, 280); a zoom is given
\* in tenths
viewDefaults ==
  [canvas_x |-> 0, canvas_y |-> 0, pos_x |-> 0, pos_y |-> 0, mouse_x |-> 0, mouse_y |-> 0,
   zoom |-> 10, zoom_last_value |-> 10, editor_selected |-> FALSE]

resetViewSkipped(v) == v

\* lines 2289-2296
resetView(v) == [viewDefaults EXCEPT !.editor_selected = v.editor_selected]

changeModule(s, name) ==
  LET s1 == dispatch(s, "moduleChanged", <<name>>)
      s2 == [s1 EXCEPT !.module = name, !.domNodes = << >>, !.domConns = <<>>,
                       !.view = resetView(@)]
  IN IF Thrown(s1) THEN s1 ELSE import(s2, s2.drawflow, s2.modkeys, FALSE)

removeModule(s, name) ==
  LET s1 == IF s.module = name THEN changeModule(s, "Home") ELSE s
  IN IF Thrown(s1) THEN s1
     ELSE dispatch([s1 EXCEPT !.drawflow = Restrict(@, DOMAIN @ \ {name}),
                              !.modkeys = SelectSeq(@, LAMBDA k : k # name)],
                   "moduleRemoved", <<name>>)

clearModuleSelected(s) ==
  [s EXCEPT !.domNodes = << >>, !.domConns = <<>>,
            !.drawflow = (s.module :> << >>) @@ @,
            !.modkeys = IF s.module \in DOMAIN s.drawflow THEN @ ELSE Append(@, s.module)]

\* the object JSON.parse(JSON.stringify(this.drawflow)) gives
export(s) ==
  LET text == JSONstringify(s.drawflow, s.modkeys)
      dataExport == [drawflow |-> JSONparse(text), keys |-> ParsedKeys(text)]
  IN [Return(dispatch(s, "export", <<dataExport>>), "data", dataExport)
        EXCEPT !.obj = JSONcopy(StoreObject)]

\* import(data) where data is the object obj: this.drawflow becomes the object
\* JSON.parse(JSON.stringify(data)) (line 2363)
importObject(s, obj, data, keys, notifi) ==
  [import(s, data, keys, notifi) EXCEPT !.obj = JSONcopy(obj)]

\* ---- zoom and pan (lines 457-618, 702-729, 863-883) ------------------------------
zoom_max == 16
zoom_min == 5
zoom_value == 1

zoom_refresh(s) ==
  LET s1 == dispatch(s, "zoom", <<s.view.zoom>>)
  IN IF Thrown(s1) THEN s1
     ELSE [s1 EXCEPT !.view.canvas_x = (@ * s1.view.zoom) \div s1.view.zoom_last_value,
                     !.view.canvas_y = (@ * s1.view.zoom) \div s1.view.zoom_last_value,
                     !.view.zoom_last_value = s1.view.zoom]

zoom_in(s) ==
  IF s.view.zoom < zoom_max THEN zoom_refresh([s EXCEPT !.view.zoom = @ + zoom_value]) ELSE s

zoom_out(s) ==
  IF s.view.zoom > zoom_min THEN zoom_refresh([s EXCEPT !.view.zoom = @ - zoom_value]) ELSE s

\* this.dispatch(...) where the handler has not thrown
Dispatching(s, name, args) == IF Thrown(s) THEN s ELSE dispatch(s, name, args)

\* lines 513-517, 539-543: node_selected is set to null
unselectNode(s) ==
  IF Thrown(s) \/ s.ui.node_selected = 0 THEN s
  ELSE dispatch([s EXCEPT !.ui.node_selected = 0], "nodeUnselected", <<TRUE>>)

\* click(e) with the canvas background as target (case 'drawflow', line 536):
\* a mousedown, or a touchstart when touch is 1
clickCanvas(s, clientX, clientY, touch) ==
  LET s1 == unselectNode(dispatch(s, "click", <<clientX, clientY>>))
  IN IF Thrown(s1) THEN s1
     ELSE dispatch([s1 EXCEPT !.view.editor_selected = TRUE,
                              !.view.pos_x = clientX, !.view.pos_y = clientY,
                              !.view.mouse_x = IF touch = 1 THEN clientX ELSE @,
                              !.view.mouse_y = IF touch = 1 THEN clientY ELSE @],
                   "clickEnd", <<clientX, clientY>>)

\* dragEnd(e) of a mouseup at (e_pos_x, e_pos_y) that ends a pan (lines 726-729, 798)
dragEndCanvas(s, e_pos_x, e_pos_y) ==
  LET s1 == IF s.view.editor_selected
            THEN [s EXCEPT !.view.canvas_x = @ + (-(s.view.pos_x - e_pos_x)),
                           !.view.canvas_y = @ + (-(s.view.pos_y - e_pos_y)),
                           !.view.editor_selected = FALSE]
            ELSE s
  IN dispatch(s1, "mouseUp", <<e_pos_x, e_pos_y>>)

\* ---- the connection gesture (lines 457-618, 702-801, 940-954) --------------------
\* mousedown on the output port element cls of node id
clickOutput(s, id, cls) ==
  LET s0 == unselectNode([dispatch(s, "click", <<id, cls>>)
                            EXCEPT !.ele_selected = [node |-> id, cls |-> cls],
                                   !.connection = TRUE])
      s1 == [s0 EXCEPT \* drawConnection: a new svg.connection is appended
                       !.ui.connection_ele = TRUE,
                       !.domConns = Append(SelectSeq(@, LAMBDA e : e # PendingEle), PendingEle)]
  IN Dispatching(Dispatching(s1, "connectionStart", <<id, cls>>), "clickEnd", <<id, cls>>)

\* click(e) with the element of node id as target (case 'drawflow-node',
\* lines 484-509), the target being no form field
clickNode(s, id) ==
  LET s0 == dispatch(s, "click", <<id>>)
      s1 == IF s.ui.node_selected # 0 /\ s.ui.node_selected # id
            THEN Dispatching(s0, "nodeUnselected", <<TRUE>>) ELSE s0
      s2 == IF s.ui.node_selected = id THEN s1
            ELSE Dispatching(s1, "nodeSelected", <<id>>)
  IN IF Thrown(s2) THEN s2
     ELSE dispatch([s2 EXCEPT !.ele_selected = [node |-> id, cls |-> 0],
                              !.ui.node_selected = id, !.ui.drag = TRUE],
                   "clickEnd", <<id>>)

\* click(e) with the delete box as target (case 'drawflow-delete', lines 578-598)
clickDelete(s) ==
  LET s0 == dispatch(s, "click", <<"delete">>)
      s1 == IF Thrown(s0) \/ s0.ui.node_selected = 0 THEN s0
            ELSE removeNodeId(s0, s0.ui.node_selected)
  IN Dispatching(unselectNode(s1), "clickEnd", <<"delete">>)

\* contextmenu(e): the delete box is put into the selected node's element
\* (lines 803-829)
contextmenu(s) == dispatch(s, "contextmenu", <<TRUE>>)

\* key(e) with e.key = 'Delete', the last click having hit no form field
\* (lines 836-851)
key(s) ==
  LET s1 == dispatch(s, "keydown", <<"Delete">>)
  IN IF Thrown(s1) \/ s1.ui.node_selected = 0 THEN s1
     ELSE removeNodeId(s1, s1.ui.node_selected)

\* dragEnd(e) of the mouseup that ends the drag of a node or of a point; moved: the pointer
\* is not where it went down (lines 714-718, 794-800)
dragEndNode(s, moved) ==
  LET s0 == IF s.ui.drag /\ moved THEN dispatch(s, "nodeMoved", <<s.ele_selected.node>>)
            ELSE s
      s1 == IF s.ui.drag_point /\ moved
            THEN Dispatching(s0, "rerouteMoved", <<s.domConns[s.ele_selected.node].node_out>>)
            ELSE s0
  IN IF Thrown(s1) THEN s1
     ELSE dispatch([s1 EXCEPT !.ui.drag = FALSE, !.ui.drag_point = FALSE,
                              !.connection = FALSE, !.ele_selected = NoEle,
                              !.view.editor_selected = FALSE],
                   "mouseUp", <<moved>>)

\* ---- reroute points (lines 546-576, 673-688, 1350-1453) ------------------------------
\* Array.prototype.splice(p, 0, x) and splice(p, 1) for p >= 0
SpliceIn(seq, p, x) ==
  IF p >= Len(seq) THEN Append(seq, x)
  ELSE SubSeq(seq, 1, p) \o <<x>> \o SubSeq(seq, p + 1, Len(seq))
SpliceOutToEnd(seq, p) == SubSeq(seq, 1, p)

SpliceOut(seq, p) ==
  LET q == IF p >= 0 THEN p ELSE IF Len(seq) + p < 0 THEN 0 ELSE Len(seq) + p
  IN IF q >= Len(seq) THEN seq ELSE SubSeq(seq, 1, q) \o SubSeq(seq, q + 2, Len(seq))

\* array[p] = x for p >= 0: an index past the end leaves holes before it
AssignAt(seq, p, x) ==
  [i \in 1..(IF p + 1 > Len(seq) THEN p + 1 ELSE Len(seq)) |->
     IF i = p + 1 THEN x ELSE IF i <= Len(seq) THEN seq[i] ELSE Undefined]

\* click(e) with point number k of the svg number c as target (case 'point',
\* lines 574-577): ele_selected is the point, kept as its two numbers
clickPoint(s, c, k) ==
  LET s1 == dispatch(s, "click", <<c, k>>)
  IN IF Thrown(s1) THEN s1
     ELSE dispatch([s1 EXCEPT !.ele_selected = [node |-> c, cls |-> k],
                              !.ui.drag_point = TRUE],
                   "clickEnd", <<c, k>>)

\* parent.insertBefore(point, parent.children[i]) where the children are paths
\* followed by points: children[i] is a path, a point, or undefined
InsertPointBefore(e, i, pos) ==
  [e EXCEPT !.points = IF i < e.paths THEN <<pos>> \o @ ELSE SpliceIn(@, i - e.paths, pos)]

\* the stored record of the connection the svg e draws: the output port's list
\* and the index findIndex gives in it (0 for -1)
RecordOf(s, e) ==
  LET conns == Get(s.drawflow[s.module][e.node_out].outputs, e.output_class)
  IN [conns |-> conns, searchConnection |-> FindEntry(conns, e.node_in, e.input_class)]
HasRecord(s, e) ==
  /\ HasNode(s, s.module, e.node_out)
  /\ Has(s.drawflow[s.module][e.node_out].outputs, e.output_class)
  /\ RecordOf(s, e).searchConnection # 0

\* connections[searchConnection].points = points
SetPoints(s, e, points) ==
  LET r == RecordOf(s, e)
      old == r.conns[r.searchConnection]
      new == [node |-> old.node, port |-> old.port, points |-> points]
  IN SetOutputs(s, s.module, e.node_out, e.output_class,
                [i \in 1..Len(r.conns) |-> IF i = r.searchConnection THEN new ELSE r.conns[i]])

\* createReroutePoint(ele), ele being child number search_point of the svg
\* number c and connection_selected, and pos what the last click left in
\* pos_x and pos_y (lines 1355-1420)
createReroutePoint(s, c, search_point, pos) ==
  LET e == s.domConns[c]
      fix == s.ui.reroute_fix_curvature
      numberPoints == e.paths
      position_add_array_point == IF fix /\ numberPoints # 1 THEN search_point ELSE 0
      \* lines 1374-1395
      e1 == IF ~fix THEN [e EXCEPT !.points = Append(@, pos)]
            ELSE IF numberPoints = 1
                 THEN [e EXCEPT !.paths = @ + 1, !.points = Append(@, pos)]
            ELSE InsertPointBefore([e EXCEPT !.paths = @ + 1],
                                   search_point + numberPoints + 1, pos)
      s1 == [s EXCEPT !.domConns[c] = e1]
  IN IF ~HasRecord(s1, e) THEN Throw(s1)
     ELSE LET r == RecordOf(s1, e)
              points == PointsOf(r.conns[r.searchConnection])
              \* lines 1407-1420: points !== [] holds for every array
              s2 == SetPoints(s1, e, IF fix THEN SpliceIn(points, position_add_array_point, pos)
                                     ELSE Append(points, pos))
              s3 == dispatch(s2, "addReroute", <<e.node_out>>)
          IN IF Thrown(s3) THEN s3 ELSE updateConnectionNodes(s3, e.node_out)

\* removeReroutePoint(ele), ele being point number k (from 0) of the svg number c
\* (lines 1426-1453)
removeReroutePoint(s, c, k) ==
  LET e == s.domConns[c]
      fix == s.ui.reroute_fix_curvature
      indexOfEle == e.paths + k
      numberMainPath == e.paths
      numberPointPosition ==
        IF fix THEN (IF indexOfEle - numberMainPath < 0 THEN 0 ELSE indexOfEle - numberMainPath)
        ELSE indexOfEle - 1
      \* children[numberMainPath-1].remove()
      e1 == IF fix /\ e.paths > 0 THEN [e EXCEPT !.paths = @ - 1] ELSE e
  IN IF ~HasRecord(s, e) THEN Throw(s)
     ELSE LET s1 == [s EXCEPT !.domConns[c] = e1]
              r == RecordOf(s1, e)
          IN IF "points" \notin DOMAIN r.conns[r.searchConnection] THEN Throw(s1)
             ELSE LET s2 == SetPoints(s1, e, SpliceOut(PointsOf(r.conns[r.searchConnection]),
                                                       numberPointPosition))
                      s3 == dispatch([s2 EXCEPT !.domConns[c].points = SpliceOut(@, k)],
                                     "removeReroute", <<e.node_out>>)
                  IN IF Thrown(s3) THEN s3 ELSE updateConnectionNodes(s3, e.node_out)

\* position(e) while point number k of the svg number c is dragged to pos
\* (lines 655-688)
positionPoint(s, c, k, pos) ==
  LET e == s.domConns[c]
      indexOfEle == e.paths + k
      numberMainPath == e.paths - 1
      numberPointPosition ==
        IF s.ui.reroute_fix_curvature
        THEN (IF indexOfEle - 1 - numberMainPath < 0 THEN 0 ELSE indexOfEle - 1 - numberMainPath)
        ELSE indexOfEle - 1
      s1 == [s EXCEPT !.domConns[c].points[k + 1] = pos]
  IN IF ~HasRecord(s1, e) THEN Throw(s1)
     ELSE LET r == RecordOf(s1, e)
          IN IF "points" \notin DOMAIN r.conns[r.searchConnection] THEN Throw(s1)
             ELSE LET s2 == SetPoints(s1, e,
                              AssignAt(PointsOf(r.conns[r.searchConnection]),
                                       numberPointPosition, pos))
                      s3 == updateConnectionNodes(s2, e.node_out)
                  IN Dispatching(s3, "mouseMove", <<pos>>)

\* position(e) while node ele_selected is dragged (lines 633-653)
positionNode(s) ==
  Dispatching(updateConnectionNodes(s, s.ele_selected.node), "mouseMove", <<TRUE>>)

\* connection_ele.remove(), and the dispatch before it
connectionCancel(s) ==
  LET s1 == dispatch(s, "connectionCancel", <<TRUE>>)
  IN IF Thrown(s1) THEN s1
     ELSE [s1 EXCEPT !.domConns = SelectSeq(@, LAMBDA e : e # PendingEle),
                     !.ui.connection_ele = FALSE]

\* connection_ele.classList.add(...): the pending svg gets its four classes
RECURSIVE ClassifyPending(_, _)
ClassifyPending(conns, e) ==
  IF conns = <<>> THEN <<>>
  ELSE <<IF conns[1] = PendingEle THEN e ELSE conns[1]>> \o ClassifyPending(Tail(conns), e)

\* mouseup on ele_last: an input port element, or anything else
dragEnd(s, ele_last) ==
  LET input_id == ele_last.node
      input_class == ele_last.cls
      output_id == s.ele_selected.node
      output_class == s.ele_selected.cls
      s1 == [s EXCEPT !.domConns =
               ClassifyPending(@, ConnEle(input_id, output_id, output_class, input_class))]
      created ==
        IF ~HasNode(s1, s1.module, output_id) THEN Throw(s1)
        ELSE IF ~Has(s1.drawflow[s1.module][output_id].outputs, output_class) THEN Throw(s1)
        ELSE LET s2 == SetOutputs(s1, s1.module, output_id, output_class,
                         Append(Get(s1.drawflow[s1.module][output_id].outputs, output_class),
                                [node |-> input_id, port |-> input_class]))
             IN IF ~HasNode(s2, s2.module, input_id) THEN Throw(s2)
                ELSE IF ~Has(s2.drawflow[s2.module][input_id].inputs, input_class) THEN Throw(s2)
                ELSE LET s3 == SetInputs(s2, s2.module, input_id, input_class,
                                 Append(Get(s2.drawflow[s2.module][input_id].inputs, input_class),
                                        [node |-> output_id, port |-> output_class]))
                         s4 == updateConnectionNodes(updateConnectionNodes(s3, output_id),
                                                     input_id)
                     IN IF Thrown(s4) THEN s4
                        ELSE LET s6 == dispatch(s4, "connectionCreated",
                                         <<output_id, input_id, output_class, input_class>>)
                             IN IF Thrown(s6) THEN s6
                                ELSE [s6 EXCEPT !.ui.connection_ele = FALSE]
      s5 == IF ~s.connection THEN s
            ELSE IF ele_last.kind # "input" THEN connectionCancel(s)
            ELSE IF output_id = input_id THEN connectionCancel(s)
            ELSE IF DomFind(s, input_id, output_id, output_class, input_class) # 0
                 THEN connectionCancel(s)
            ELSE created
  IN IF Thrown(s5) THEN s5
     ELSE dispatch([s5 EXCEPT !.connection = FALSE, !.ele_selected = NoEle,
                              !.ui.drag = FALSE, !.ui.drag_point = FALSE,
                              !.view.editor_selected = FALSE],
                   "mouseUp", <<ele_last.node, ele_last.cls>>)

\* the graphs handed to import(): an empty one, one node with a gap before its
\* id, two connected nodes, and two modules with a node each
NodeJson(inputs, outputs) == [data |-> 0, inputs |-> inputs, outputs |-> outputs]
PortJson(k, conns) == [name |-> k, connections |-> conns]
ImportedGraphs ==
  << [keys |-> <<"Home">>, drawflow |-> ("Home" :> << >>)],
     [keys |-> <<"Home">>,
      drawflow |-> ("Home" :> (2 :> NodeJson(<<PortJson(1, <<>>)>>, <<PortJson(1, <<>>)>>)))],
     [keys |-> <<"Home">>,
      drawflow |-> ("Home" :>
        ((1 :> NodeJson(<<>>, <<PortJson(1, <<[node |-> 2, port |-> 1]>>)>>)) @@
         (2 :> NodeJson(<<PortJson(1, <<[node |-> 1, port |-> 1]>>)>>, <<>>))))],
     [keys |-> <<"Home", "Other">>,
      drawflow |-> ("Home" :> (1 :> NodeJson(<<>>, <<PortJson(1, <<>>)>>))) @@
                   ("Other" :> (2 :> NodeJson(<<PortJson(1, <<>>)>>, <<>>)))] >>

\* ---- the state machine ------------------------------------------------------------
\* what the host holds: a node object got from getNodeFromId (module, node: where
\* the store had it), or a graph object got from export (drawflow, keys: its
\* content); obj is 0 when that object is part of the store; imported: it was
\* passed to import
NoObject ==
  [kind |-> "none", obj |-> 1, module |-> "Home", node |-> 0,
   drawflow |-> << >>, keys |-> <<>>, imported |-> FALSE]

Init ==
  /\ drawflow = ("Home" :> << >>)          \* line 237
  /\ modkeys = <<"Home">>
  /\ module = "Home"                       \* line 244
  /\ nodeId = 1                            \* line 51
  /\ domNodes = << >>
  /\ domConns = <<>>
  /\ connection = FALSE
  /\ ele_selected = NoEle
  /\ mouseDown = FALSE
  /\ call = [op |-> "new", args |-> <<>>]
  /\ ret = [kind |-> "void", val |-> 0]
  /\ dispatched = <<>>
  /\ events = << >>                       \* line 33
  /\ heard = <<>>
  /\ throws = 0
  /\ allocated = 0
  /\ held = NoObject
  /\ view = [viewDefaults EXCEPT !.editor_selected = FALSE]
  /\ useuuid = FALSE                      \* line 213
  /\ ui = uiDefaults

\* the number of connection entries stored on output ports, all modules together
RECURSIVE PortEntries(_)
PortEntries(obj) ==
  IF obj = <<>> THEN 0 ELSE Len(obj[1].connections) + PortEntries(Tail(obj))
RECURSIVE SumOver(_, _)
SumOver(f, S) ==
  IF S = {} THEN 0
  ELSE LET x == CHOOSE y \in S : TRUE IN PortEntries(f[x].outputs) + SumOver(f, S \ {x})
RECURSIVE EntryCount(_, _)
EntryCount(df, ms) ==
  IF ms = {} THEN 0
  ELSE LET m == CHOOSE y \in ms : TRUE
       IN SumOver(df[m], DOMAIN df[m]) + EntryCount(df, ms \ {m})

\* the exploration stays within MaxPorts ports per node and MaxConns connections
WithinBounds(t) ==
  /\ EntryCount(t.drawflow, DOMAIN t.drawflow) <= MaxConns
  /\ \A m \in DOMAIN t.drawflow : \A id \in DOMAIN t.drawflow[m] :
       /\ Len(t.drawflow[m][id].inputs) <= MaxPorts
       /\ Len(t.drawflow[m][id].outputs) <= MaxPorts
  /\ \A id \in DOMAIN t.domNodes :
       /\ Len(t.domNodes[id].inputs) <= MaxPorts
       /\ Len(t.domNodes[id].outputs) <= MaxPorts
  /\ Len(t.domConns) <= MaxConns + 1

\* the host calls op(args) and the editor is left as t
Called(op, args, e) ==
  /\ throws <= MaxThrows
  /\ \E t \in {e} :
       /\ WithinBounds(t)
       /\ throws' = IF Thrown(t) THEN throws + 1 ELSE throws
       /\ allocated' = IF op = "addNode" /\ ~t.useuuid /\ ~Thrown(t) /\ t.ret.val > allocated
                       THEN t.ret.val ELSE allocated
       /\ drawflow' = t.drawflow
       /\ modkeys' = t.modkeys
       /\ module' = t.module
       /\ nodeId' = t.nodeId
       /\ domNodes' = t.domNodes
       /\ domConns' = t.domConns
       /\ connection' = t.connection
       /\ ele_selected' = t.ele_selected
       /\ call' = [op |-> op, args |-> args]
       /\ ret' = t.ret
       /\ dispatched' = t.dispatched
       /\ events' = t.events
       /\ heard' = t.heard
       /\ view' = t.view
       /\ useuuid' = t.useuuid
       /\ ui' = t.ui

\* host calls are made between mouse gestures, not in the middle of one
Api(op, args, t) == ~mouseDown /\ Called(op, args, t) /\ UNCHANGED <<mouseDown, held>>

\* a host call whose result the host keeps as h
Keeping(op, args, t, h) ==
  /\ ~mouseDown
  /\ Called(op, args, t)
  /\ held' = IF Thrown(t) THEN held ELSE h
  /\ UNCHANGED mouseDown

AddNode ==
  /\ ~useuuid
  /\ nodeId <= MaxNodes
  /\ \E num_in, num_out \in 0..MaxArity :
       Api("addNode", <<num_in, num_out>>, addNode(Editor, num_in, num_out))

\* addNode called with port counts that may be negative
AddNodeAnyArity ==
  /\ ~useuuid
  /\ nodeId <= MaxNodes
  /\ \E num_in, num_out \in (-1)..MaxArity :
       Api("addNode", <<num_in, num_out>>, addNode(Editor, num_in, num_out))

AddConnection ==
  \E id_output, id_input \in Ids : \E output_class, input_class \in PortIds :
    Api("addConnection", <<id_output, id_input, output_class, input_class>>,
        addConnection(Editor, id_output, id_input, output_class, input_class))

RemoveSingleConnection ==
  \E id_output, id_input \in Ids : \E output_class, input_class \in PortIds :
    Api("removeSingleConnection", <<id_output, id_input, output_class, input_class>>,
        removeSingleConnection(Editor, id_output, id_input, output_class, input_class))

AddNodeInput == \E id \in Ids : Api("addNodeInput", <<id>>, addNodeInput(Editor, id))

AddNodeOutput == \E id \in Ids : Api("addNodeOutput", <<id>>, addNodeOutput(Editor, id))

RemoveNodeInput ==
  \E id \in Ids : \E input_class \in PortIds :
    Api("removeNodeInput", <<id, input_class>>, removeNodeInput(Editor, id, input_class))

RemoveNodeOutput ==
  \E id \in Ids : \E output_class \in PortIds :
    Api("removeNodeOutput", <<id, output_class>>, removeNodeOutput(Editor, id, output_class))

RemoveNodeId == \E id \in Ids : Api("removeNodeId", <<id>>, removeNodeId(Editor, id))

GetNodeFromId == \E id \in Ids : Api("getNodeFromId", <<id>>, getNodeFromId(Editor, id))

UpdateNodeDataFromId ==
  \E id \in Ids : Api("updateNodeDataFromId", <<id, 1>>, updateNodeDataFromId(Editor, id, 1))

AddModule == \E name \in ModuleNames : Api("addModule", <<name>>, addModule(Editor, name))

\* addModule with a name no module has yet
AddModuleNew ==
  \E name \in ModuleNames \ DOMAIN drawflow :
    Api("addModule", <<name>>, addModule(Editor, name))

ChangeModule ==
  \E name \in ModuleNames : Api("changeModule", <<name>>, changeModule(Editor, name))

RemoveModule ==
  \E name \in ModuleNames : Api("removeModule", <<name>>, removeModule(Editor, name))

ClearModuleSelected == Api("clearModuleSelected", <<>>, clearModuleSelected(Editor))

Clear == Api("clear", <<>>, clear(Editor))

Export == Api("export", <<>>, export(Editor))

\* import(data) with one of the graphs of ImportedGraphs
Import ==
  \E g \in 1..Len(ImportedGraphs) :
    Api("import", <<g>>, import(Editor, ImportedGraphs[g].drawflow, ImportedGraphs[g].keys, TRUE))

\* import(data) with the object the export() just before returned
ImportExported ==
  /\ call.op = "export"
  /\ ret.kind = "data"
  /\ Api("import", <<0>>, import(Editor, ret.val.drawflow, ret.val.keys, TRUE))

\* const node = editor.getNodeFromId(id)
GetNodeKept ==
  \E id \in Ids :
    LET t == getNodeFromId(Editor, id)
    IN Keeping("getNodeFromId", <<id>>, t,
               [NoObject EXCEPT !.kind = "node", !.obj = t.obj,
                                !.module = getModuleFromNodeId(Editor, id), !.node = id])

\* const graph = editor.export()
ExportKept ==
  LET t == export(Editor)
  IN Keeping("export", <<>>, t,
             [NoObject EXCEPT !.kind = "graph", !.obj = t.obj,
                              !.drawflow = t.ret.val.drawflow, !.keys = t.ret.val.keys])

\* editor.import(graph) with the graph object the host holds. this.drawflow is
\* a new object afterwards: the object of the host is part of the store only
\* if it is that object.
ImportHeld ==
  /\ held.kind = "graph"
  /\ ~mouseDown
  /\ LET t == importObject(Editor, held.obj, held.drawflow, held.keys, TRUE)
     IN /\ Called("import", <<0>>, t)
        /\ held' = [held EXCEPT !.obj = IF t.obj = held.obj THEN StoreObject ELSE 1,
                                !.imported = TRUE]
  /\ UNCHANGED mouseDown

RECURSIVE EmptyModules(_)
EmptyModules(keys) ==
  IF keys = <<>> THEN << >> ELSE (keys[1] :> << >>) @@ EmptyModules(Tail(keys))

\* the host writes into the object h it holds: node.data = 7 for a node,
\* graph.drawflow[m].data = {} for every module m of a graph. The store
\* changes when the object is part of it.
mutateHeld(s, h) ==
  IF h.obj # StoreObject THEN s
  ELSE IF h.kind = "node"
       THEN IF HasNode(s, h.module, h.node)
            THEN [s EXCEPT !.drawflow[h.module][h.node].data = 7]
            ELSE s
       ELSE [s EXCEPT !.drawflow = EmptyModules(s.modkeys)]

HostMutates ==
  /\ held.kind # "none"
  /\ ~mouseDown
  /\ Called("mutate", <<>>, mutateHeld(Editor, held))
  /\ held' = IF held.kind = "graph"
             THEN [held EXCEPT !.drawflow = EmptyModules(held.keys)]
             ELSE held
  /\ UNCHANGED mouseDown

\* where port elements and reroute points can be on the canvas
Positions == {<<0, 0>>, <<100, 60>>}

RECURSIVE PointLists(_)
PointLists(n) ==
  IF n = 0 THEN {<<>>}
  ELSE PointLists(n - 1) \cup
       {Append(l, q) : l \in {k \in PointLists(n - 1) : Len(k) = n - 1}, q \in Positions}

\* updateConnectionNodes(id) redraws a connection element of node id with the
\* given reroute points, its ports being at anchorOut and anchorIn
UpdateConnectionNodes ==
  \E side \in {"out", "in"} : \E reroute_fix_curvature \in BOOLEAN :
  \E anchorOut, anchorIn \in Positions : \E points \in PointLists(MaxPoints) :
    Api("updateConnectionNodes", <<side, reroute_fix_curvature, anchorOut, anchorIn, points>>,
        Return(Editor, "d",
               pathsWritten(side, reroute_fix_curvature, anchorOut, anchorIn, points)))

\* createCurvature called with coordinates of both directions and the tie
CreateCurvature ==
  \E start_pos_x, end_pos_x \in {0, 40, 100} : \E start_pos_y, end_pos_y \in {0, 60} :
  \E curvature_value \in {5, 3} : \E type \in {"openclose", "open", "close", "other"} :
    Api("createCurvature",
        <<start_pos_x, start_pos_y, end_pos_x, end_pos_y, curvature_value, type>>,
        Return(Editor, "d", createCurvature(start_pos_x, start_pos_y, end_pos_x, end_pos_y,
                                            curvature_value, type)))

ZoomIn == view.zoom < 10 + MaxZoom /\ Api("zoom_in", <<>>, zoom_in(Editor))

ZoomOut == view.zoom > 10 - MaxZoom /\ Api("zoom_out", <<>>, zoom_out(Editor))

\* where the pointer can be: the corner, and a point whose coordinates every
\* zoom explored scales to integers
PointerAt == {<<0, 0>>, <<3960, 3960>>}

\* mousedown or touchstart on the canvas background; a pan is started from a
\* canvas that is not panned
ClickCanvas ==
  /\ ~mouseDown
  /\ view.canvas_x = 0 /\ view.canvas_y = 0
  /\ \E e \in PointerAt : \E touch \in {0, 1} :
       Called("click", <<e[1], e[2], touch>>, clickCanvas(Editor, e[1], e[2], touch))
  /\ mouseDown' = TRUE
  /\ UNCHANGED held

\* the mouseup that ends the pan
DragEndCanvas ==
  /\ mouseDown
  /\ view.editor_selected
  /\ \E e \in PointerAt :
       Called("dragEnd", <<e[1], e[2]>>, dragEndCanvas(Editor, e[1], e[2]))
  /\ mouseDown' = FALSE
  /\ UNCHANGED held

\* the host sets editor.useuuid = true before it adds a node
UseUuid ==
  /\ ~mouseDown
  /\ ~useuuid
  /\ domNodes = << >>
  /\ nodeId = 1
  /\ useuuid' = TRUE
  /\ call' = [op |-> "useuuid", args |-> <<>>]
  /\ ret' = [kind |-> "void", val |-> 0]
  /\ dispatched' = <<>>
  /\ heard' = <<>>
  /\ UNCHANGED <<drawflow, modkeys, module, nodeId, domNodes, domConns,
                 connection, ele_selected, mouseDown, events, throws, allocated,
                 held, view, ui>>

\* the outcomes of the draws getUuid is called with: every value in every round
DrawsChecked == {[j \in 1..36 |-> IF j = i THEN v ELSE 0] : i \in 1..36, v \in 0..15}

\* the outcomes of the draws addNode is called with: a digit in the round of
\* s[19], a letter in the round of s[0]
DrawsUsed == {[j \in 1..36 |-> IF j = i[1] THEN i[2] ELSE 0] :
                i \in {<<20, 7>>, <<1, 12>>}}

GetUuid ==
  \E draws \in DrawsChecked :
    LET s == [Editor EXCEPT !.random = draws]
    IN Api("getUuid", draws, Return(s, "uuid", getUuid(s)))

\* addNode with useuuid set
AddNodeUuid ==
  /\ useuuid
  /\ Cardinality(DOMAIN domNodes) < MaxNodes
  /\ \E draws \in DrawsUsed : \E num_in \in 0..MaxArity :
       Api("addNode", <<num_in, 0>>,
           addNode([Editor EXCEPT !.random = draws], num_in, 0))

\* how many listeners are registered, all events together
RECURSIVE Registrations(_, _)
Registrations(ev, names) ==
  IF names = {} THEN 0
  ELSE LET e == CHOOSE x \in names : TRUE
       IN Len(ev[e]) + Registrations(ev, names \ {e})

\* on(event, callback) for an event of names and a function of callbacks
OnWith(names, callbacks) ==
  /\ Registrations(events, DOMAIN events) < MaxListeners
  /\ \E event \in names : \E callback \in callbacks :
       Api("on", <<event, callback>>, on(Editor, event, callback))

OnNodeCreated == OnWith({"nodeCreated"}, {"noteA", "fail", "again"})

\* listeners of nodeCreated that return, remove themselves or throw
OnNodeCreatedAbort == OnWith({"nodeCreated"}, {"noteA", "leave", "fail"})

OnConnectionRemoved == OnWith({"connectionRemoved"}, {"noteA"})

\* listeners of moduleChanged that look at the editor or add a node
OnModuleChanged == OnWith({"moduleChanged"}, {"noteA", "again"})

\* changeModule while its listeners can still add nodes within the bound
ChangeModuleHeard == nodeId <= MaxNodes /\ ChangeModule

EventNames == {"nodeCreated", "moduleCreated"}

On == OnWith(EventNames, {"noteA", "noteB", "leave", "fail"})

\* listeners that return, and listeners that unregister themselves or another
OnUnregistering == OnWith(EventNames, {"noteA", "noteB", "leave", "drop"})

\* on(event, callback) with arguments of every type
OnAnyValue ==
  /\ Registrations(events, DOMAIN events) < MaxListeners
  /\ \E event \in EventNames \cup {Undefined, "7", "noteA"} :
     \E callback \in {"noteA", "noteB", Undefined, "null", "nodeCreated"} :
       Api("on", <<event, callback>>, on(Editor, event, callback))

RemoveListener ==
  \E event \in EventNames : \E callback \in {"noteA", "noteB", "leave", "fail"} :
    Api("removeListener", <<event, callback>>, removeListener(Editor, event, callback))

\* dispatch(event, details) called by the host
Dispatch ==
  \E event \in EventNames :
    Api("dispatch", <<event, "details">>, dispatchCall(Editor, event, <<"details">>))

\* mousedown on one of the output port elements on the canvas
ClickOutput ==
  /\ ~mouseDown
  /\ EntryCount(drawflow, DOMAIN drawflow) < MaxConns
  /\ \E id \in DOMAIN domNodes : \E i \in 1..Len(domNodes[id].outputs) :
       Called("click", <<id, domNodes[id].outputs[i]>>,
              clickOutput(Editor, id, domNodes[id].outputs[i]))
  /\ mouseDown' = TRUE
  /\ UNCHANGED held

\* mousedown on the element of a node on the canvas
ClickNode ==
  /\ ~mouseDown
  /\ \E id \in DOMAIN domNodes : Called("click", <<id>>, clickNode(Editor, id))
  /\ mouseDown' = TRUE
  /\ UNCHANGED held

\* the mouseup that ends it, where the pointer went down or elsewhere
DragEndNode ==
  /\ mouseDown
  /\ ui.drag \/ ui.drag_point
  /\ \E moved \in BOOLEAN : Called("dragEnd", <<moved>>, dragEndNode(Editor, moved))
  /\ mouseDown' = FALSE
  /\ UNCHANGED held

\* addNode for a node with outputs only or with inputs only
AddNodeSided ==
  /\ ~useuuid
  /\ nodeId <= MaxNodes
  /\ \E arity \in {<<0, MaxPorts>>, <<MaxPorts, 0>>} :
       Api("addNode", arity, addNode(Editor, arity[1], arity[2]))

\* addConnection between two port elements on the canvas
AddConnectionDrawn ==
  /\ EntryCount(drawflow, DOMAIN drawflow) < MaxConns
  /\ \E id_output, id_input \in DOMAIN domNodes : \E output_class, input_class \in PortIds :
       /\ DomHasOutput(Editor, id_output, output_class)
       /\ DomHasInput(Editor, id_input, input_class)
       /\ Api("addConnection", <<id_output, id_input, output_class, input_class>>,
              addConnection(Editor, id_output, id_input, output_class, input_class))

\* the host sets editor.reroute = true, and editor.reroute_fix_curvature or
\* not, before it adds a node
Reroute ==
  /\ ~mouseDown
  /\ ~ui.reroute
  /\ domNodes = << >>
  /\ nodeId = 1
  /\ \E fix \in BOOLEAN :
       /\ ui' = [ui EXCEPT !.reroute = TRUE, !.reroute_fix_curvature = fix]
       /\ call' = [op |-> "reroute", args |-> <<fix>>]
  /\ ret' = [kind |-> "void", val |-> 0]
  /\ dispatched' = <<>>
  /\ heard' = <<>>
  /\ UNCHANGED <<drawflow, modkeys, module, nodeId, domNodes, domConns,
                 connection, ele_selected, mouseDown, events, throws, allocated,
                 held, view, useuuid>>

\* where a reroute point can be put
Spots == {<<100, 60>>, <<200, 30>>}

\* the number of reroute points on the canvas
RECURSIVE PointCount(_)
PointCount(conns) ==
  IF conns = <<>> THEN 0 ELSE Len(conns[1].points) + PointCount(Tail(conns))

\* dblclick(e) on a path of a connection that the two clicks before it selected,
\* the pointer being at pos (lines 1350-1353)
DblclickPath ==
  /\ ui.reroute
  /\ PointCount(domConns) < MaxPoints
  /\ \E c \in 1..Len(domConns) : \E search_point \in 0..(domConns[c].paths - 1) :
       \E pos \in Spots :
         /\ Api("createReroutePoint", <<c, search_point, pos>>,
                createReroutePoint(Editor, c, search_point, pos))

\* dblclick(e) on a reroute point while no connection is selected (lines 1355-1357)
DblclickPoint ==
  \E c \in 1..Len(domConns) : \E k \in 0..(Len(domConns[c].points) - 1) :
    Api("removeReroutePoint", <<c, k>>, removeReroutePoint(Editor, c, k))

\* mousedown on a reroute point
ClickPoint ==
  /\ ~mouseDown
  /\ \E c \in 1..Len(domConns) : \E k \in 0..(Len(domConns[c].points) - 1) :
       Called("click", <<c, k>>, clickPoint(Editor, c, k))
  /\ mouseDown' = TRUE
  /\ UNCHANGED held

\* mousemove while a node is dragged
PositionNode ==
  /\ mouseDown
  /\ ui.drag
  /\ call.op # "position"
  /\ Called("position", <<ele_selected.node>>, positionNode(Editor))
  /\ UNCHANGED <<mouseDown, held>>

\* mousemove to pos while a reroute point is dragged
PositionPoint ==
  /\ mouseDown
  /\ ui.drag_point
  /\ \E pos \in Spots :
       /\ pos # domConns[ele_selected.node].points[ele_selected.cls + 1]
       /\ Called("position", <<ele_selected.node, ele_selected.cls, pos>>,
                 positionPoint(Editor, ele_selected.node, ele_selected.cls, pos))
  /\ UNCHANGED <<mouseDown, held>>

\* the Delete key is pressed
Key == Api("key", <<"Delete">>, key(Editor))

\* a right click while a node is selected
ContextMenu ==
  /\ ui.node_selected # 0
  /\ Api("contextmenu", <<>>, contextmenu(Editor))

\* mousedown on the delete box the right click put into the selected node's
\* element, which is on the canvas
ClickDelete ==
  /\ ~mouseDown
  /\ call.op = "contextmenu"
  /\ ui.node_selected \in DOMAIN domNodes
  /\ Called("click", <<>>, clickDelete(Editor))
  /\ mouseDown' = TRUE
  /\ UNCHANGED held

\* the elements a mouseup can land on: an input port element, or none of them
DragEnd ==
  /\ mouseDown
  /\ ~view.editor_selected
  /\ ~ui.drag /\ ~ui.drag_point
  /\ \E ele_last \in {[kind |-> "other", node |-> 0, cls |-> 0]} \cup
                     {[kind |-> "input", node |-> id, cls |-> k] :
                        id \in DOMAIN domNodes, k \in PortIds} :
       /\ ele_last.kind = "input" => DomHasInput(Editor, ele_last.node, ele_last.cls)
       /\ Called("dragEnd", <<ele_last.node, ele_last.cls>>, dragEnd(Editor, ele_last))
  /\ mouseDown' = FALSE
  /\ UNCHANGED held

Next ==
  \/ AddNode
  \/ AddNodeSided
  \/ AddConnectionDrawn
  \/ PositionNode
  \/ Reroute
  \/ DblclickPath
  \/ DblclickPoint
  \/ ClickPoint
  \/ PositionPoint
  \/ AddModuleNew
  \/ ClickNode
  \/ DragEndNode
  \/ Key
  \/ ContextMenu
  \/ ClickDelete
  \/ OnUnregistering
  \/ OnModuleChanged
  \/ ChangeModuleHeard
  \/ UseUuid
  \/ GetUuid
  \/ AddNodeUuid
  \/ AddNodeAnyArity
  \/ AddConnection
  \/ RemoveSingleConnection
  \/ AddNodeInput
  \/ AddNodeOutput
  \/ RemoveNodeInput
  \/ RemoveNodeOutput
  \/ RemoveNodeId
  \/ GetNodeFromId
  \/ UpdateNodeDataFromId
  \/ AddModule
  \/ ChangeModule
  \/ RemoveModule
  \/ ClearModuleSelected
  \/ Clear
  \/ Export
  \/ Import
  \/ ImportExported
  \/ GetNodeKept
  \/ ExportKept
  \/ ImportHeld
  \/ HostMutates
  \/ UpdateConnectionNodes
  \/ CreateCurvature
  \/ OnNodeCreated
  \/ OnNodeCreatedAbort
  \/ OnConnectionRemoved
  \/ On
  \/ OnAnyValue
  \/ RemoveListener
  \/ Dispatch
  \/ ClickOutput
  \/ DragEnd
  \/ ZoomIn
  \/ ZoomOut
  \/ ClickCanvas
  \/ DragEndCanvas

Spec == Init /\ [][Next]_vars

\* connections alone: the programmatic calls and the drag gesture, one module
NextConn ==
  \/ AddNode
  \/ AddConnection
  \/ RemoveSingleConnection
  \/ ClickOutput
  \/ DragEnd

SpecConn == Init /\ [][NextConn]_vars

\* ports: adding and removing them on connected nodes, one module
NextPorts ==
  \/ AddNode
  \/ AddConnection
  \/ AddNodeInput
  \/ AddNodeOutput
  \/ RemoveNodeInput
  \/ RemoveNodeOutput

SpecPorts == Init /\ [][NextPorts]_vars

\* removeSingleConnection on nodes whose inputs grow
NextRemove ==
  \/ AddNode
  \/ AddConnection
  \/ AddNodeInput
  \/ RemoveSingleConnection

SpecRemove == Init /\ [][NextRemove]_vars

\* nodes and their connections across modules
NextModules ==
  \/ AddNode
  \/ AddConnection
  \/ RemoveNodeId
  \/ AddModule
  \/ ChangeModule

SpecModules == Init /\ [][NextModules]_vars

\* the calls that look a node or a port up, one module
NextLookup ==
  \/ AddNode
  \/ AddConnection
  \/ RemoveSingleConnection
  \/ RemoveNodeInput
  \/ RemoveNodeOutput
  \/ RemoveNodeId
  \/ GetNodeFromId
  \/ UpdateNodeDataFromId

SpecLookup == Init /\ [][NextLookup]_vars

\* ---- the store as the properties read it ---------------------------------------------
\* the connection list of output port k of node id in module m; empty if there is none
OutputConns(df, m, id, k) ==
  IF m \in DOMAIN df /\ id \in DOMAIN df[m] /\ Has(df[m][id].outputs, k)
  THEN Get(df[m][id].outputs, k) ELSE <<>>

InputConns(df, m, id, k) ==
  IF m \in DOMAIN df /\ id \in DOMAIN df[m] /\ Has(df[m][id].inputs, k)
  THEN Get(df[m][id].inputs, k) ELSE <<>>

\* how many entries of conns name port p of node n
Times(conns, n, p) ==
  Cardinality({i \in 1..Len(conns) : conns[i].node = n /\ conns[i].port = p})

\* the entries the ports of one side of a node hold
EntriesOf(obj) ==
  UNION {{obj[i].connections[j] : j \in 1..Len(obj[i].connections)} : i \in 1..Len(obj)}

\* some port of some node, in any module, holds an entry naming node n
SomeEntryNames(df, n) ==
  \E m \in DOMAIN df : \E id \in DOMAIN df[m] :
    \E e \in EntriesOf(df[m][id].outputs) \cup EntriesOf(df[m][id].inputs) : e.node = n

\* the handler that ran last returned (it did not throw)
Returned(r) == r.kind # "throw"

\* every entry has its mirror entry on the other node, as many times
Symmetric(df) ==
  \A m \in DOMAIN df : \A a, b \in Ids : \A p, q \in PortIds :
    Times(OutputConns(df, m, a, p), b, q) = Times(InputConns(df, m, b, q), a, p)

\* node id is stored and has no output port named k (no input port named k)
LacksOutput(s, id, k) ==
  /\ getModuleFromNodeId(s, id) # Undefined
  /\ ~Has(s.drawflow[getModuleFromNodeId(s, id)][id].outputs, k)

LacksInput(s, id, k) ==
  /\ getModuleFromNodeId(s, id) # Undefined
  /\ ~Has(s.drawflow[getModuleFromNodeId(s, id)][id].inputs, k)

\* ---- C1 ---------------------------------------------------------------------------------
\* C1: in every state a mutation leaves, output port p of node a lists {b, q}
\* exactly as many times as input port q of node b lists {a, p}.
C1_Symmetry == Symmetric(drawflow)

\* ---- C2 ---------------------------------------------------------------------------------
\* C2: when removeNodeId(n), called while the active module exists and every
\* entry of the store is mirrored, has returned, no port of any node in any
\* module holds an entry naming n.
C2_RemoveNodeIdDetaches ==
  [][(/\ call'.op = "removeNodeId"
      /\ Returned(ret')
      /\ module \in DOMAIN drawflow
      /\ Symmetric(drawflow))
       => ~SomeEntryNames(drawflow', call'.args[1])]_vars

\* ---- C3 ---------------------------------------------------------------------------------
\* the names of the ports of one side of a node are exactly 1..m
NamesContiguous(obj) == {obj[i].name : i \in 1..Len(obj)} = 1..Len(obj)

PortNamesContiguous(df) ==
  \A m \in DOMAIN df : \A id \in DOMAIN df[m] :
    NamesContiguous(df[m][id].inputs) /\ NamesContiguous(df[m][id].outputs)

\* new is old and one more port, named Len(old) + 1 and holding no connection
AddsNextName(old, new) ==
  /\ Len(new) = Len(old) + 1
  /\ \A j \in 1..Len(old) : Has(new, j) /\ Get(new, j) = Get(old, j)
  /\ Has(new, Len(old) + 1) /\ Get(new, Len(old) + 1) = <<>>

\* new is old without port k: the ports above k moved down by one name, each
\* with the connection list it held
KeepsOrder(old, new, k) ==
  /\ Len(new) = Len(old) - 1
  /\ \A j \in 1..Len(new) :
       Has(new, j) /\ Get(new, j) = Get(old, IF j < k THEN j ELSE j + 1)

\* what a step that is a returned port call did to the ports of its node
PortStep ==
  LET id == call'.args[1]
      m == getModuleFromNodeId(Editor, id)
      old == drawflow[m][id]
      new == drawflow'[m][id]
  IN (call'.op \in {"addNodeInput", "addNodeOutput", "removeNodeInput", "removeNodeOutput"}
        /\ Returned(ret'))
     => /\ call'.op = "addNodeInput" => AddsNextName(old.inputs, new.inputs)
        /\ call'.op = "addNodeOutput" => AddsNextName(old.outputs, new.outputs)
        /\ call'.op = "removeNodeInput" => KeepsOrder(old.inputs, new.inputs, call'.args[2])
        /\ call'.op = "removeNodeOutput" => KeepsOrder(old.outputs, new.outputs, call'.args[2])

OutEdges(df, m) ==
  UNION {UNION {{<<a, df[m][a].outputs[i].name, df[m][a].outputs[i].connections[j].node,
                   df[m][a].outputs[i].connections[j].port>> :
                   j \in 1..Len(df[m][a].outputs[i].connections)} :
                i \in 1..Len(df[m][a].outputs)} :
         a \in DOMAIN df[m]}

\* the edges <<a, p, b, q>> of module m as the input ports list them
InEdges(df, m) ==
  UNION {UNION {{<<df[m][b].inputs[i].connections[j].node,
                   df[m][b].inputs[i].connections[j].port, b, df[m][b].inputs[i].name>> :
                   j \in 1..Len(df[m][b].inputs[i].connections)} :
                i \in 1..Len(df[m][b].inputs)} :
         b \in DOMAIN df[m]}

\* the edges without those on input k of node n, the inputs of n above k renamed
WithoutInput(edges, n, k) ==
  {IF e[3] = n /\ e[4] > k THEN <<e[1], e[2], e[3], e[4] - 1>> ELSE e :
     e \in {x \in edges : ~(x[3] = n /\ x[4] = k)}}

WithoutOutput(edges, n, k) ==
  {IF e[1] = n /\ e[2] > k THEN <<e[1], e[2] - 1, e[3], e[4]>> ELSE e :
     e \in {x \in edges : ~(x[1] = n /\ x[2] = k)}}

\* a step that is a returned removeNodeInput or removeNodeOutput
PortRemoved == call'.op \in {"removeNodeInput", "removeNodeOutput"} /\ Returned(ret')

\* C4: when removeNodeInput(n, k) (removeNodeOutput(n, k)) has returned, the
\* edges of the module, read from the output lists and read from the input
\* lists, are the edges before without those on port k, every endpoint (n, j)
\* with j > k renamed to (n, j-1) and every other edge as it was.
C4_RenumberingRemapsBothEnds ==
  [][PortRemoved =>
       LET n == call'.args[1]
           k == call'.args[2]
           m == getModuleFromNodeId(Editor, n)
       IN IF call'.op = "removeNodeInput"
          THEN /\ OutEdges(drawflow', m) = WithoutInput(OutEdges(drawflow, m), n, k)
               /\ InEdges(drawflow', m) = WithoutInput(InEdges(drawflow, m), n, k)
          ELSE /\ OutEdges(drawflow', m) = WithoutOutput(OutEdges(drawflow, m), n, k)
               /\ InEdges(drawflow', m) = WithoutOutput(InEdges(drawflow, m), n, k)]_vars

\* ---- C5 ---------------------------------------------------------------------------------
\* how many connections of module m touch node n (each entry of an output list
\* that is held by n or names n)
Touching(df, m, n) ==
  Cardinality({x \in {<<a, i, j>> : a \in DOMAIN df[m], i \in PortIds, j \in 1..MaxConns} :
                 /\ x[2] <= Len(df[m][x[1]].outputs)
                 /\ x[3] <= Len(df[m][x[1]].outputs[x[2]].connections)
                 /\ x[1] = n \/ df[m][x[1]].outputs[x[2]].connections[x[3]].node = n})

\* every entry of module m names a node of m and a port that node has
Resolves(df, m) ==
  \A id \in DOMAIN df[m] :
    /\ \A e \in EntriesOf(df[m][id].outputs) :
         e.node \in DOMAIN df[m] /\ Has(df[m][e.node].inputs, e.port)
    /\ \A e \in EntriesOf(df[m][id].inputs) :
         e.node \in DOMAIN df[m] /\ Has(df[m][e.node].outputs, e.port)

\* C5: when removing port k of node n has returned, n is touched by as many
\* connections as before less those port k held, and every connection entry of
\* the module names a port that exists on the node it names.
C5_RenumberingKeepsCount ==
  [][PortRemoved =>
       LET n == call'.args[1]
           k == call'.args[2]
           m == getModuleFromNodeId(Editor, n)
           onPort == IF call'.op = "removeNodeInput"
                     THEN Len(InputConns(drawflow, m, n, k))
                     ELSE Len(OutputConns(drawflow, m, n, k))
       IN /\ Touching(drawflow', m, n) = Touching(drawflow, m, n) - onPort
          /\ Resolves(drawflow', m)]_vars

\* ---- C6 ---------------------------------------------------------------------------------
\* how many entries of the output lists of module m name input q of node n
NamingInput(df, m, n, q) ==
  Cardinality({e \in OutEdges(df, m) : e[3] = n /\ e[4] = q})
NamingOutput(df, m, n, p) ==
  Cardinality({e \in InEdges(df, m) : e[1] = n /\ e[2] = p})

\* node a has no input and output_1 alone, node b input_1 alone and no output,
\* both in Home, and the one edge is a.output_1 -> b.input_1
OneEdge(df, a, b) ==
  /\ a \in DOMAIN df["Home"] /\ b \in DOMAIN df["Home"]
  /\ df["Home"][a].inputs = <<>>
  /\ df["Home"][a].outputs = <<[name |-> 1, connections |-> <<[node |-> b, port |-> 1]>>]>>
  /\ df["Home"][b].inputs = <<[name |-> 1, connections |-> <<[node |-> a, port |-> 1]>>]>>
  /\ df["Home"][b].outputs = <<>>

NoDuplicateEdge(df) ==
  \A m \in DOMAIN df : \A a, b \in Ids : \A p, q \in PortIds :
    Times(OutputConns(df, m, a, p), b, q) <= 1

\* this step is addConnection with the arguments of an edge the output port lists
RepeatedCall ==
  /\ call'.op = "addConnection"
  /\ \E m \in DOMAIN drawflow :
       Times(OutputConns(drawflow, m, call'.args[1], call'.args[3]),
             call'.args[2], call'.args[4]) >= 1

\* C7: after every step of addConnection calls and drag gestures no output
\* port lists the same (target node, target input) twice, and addConnection
\* with the arguments of a stored edge changes nothing and dispatches nothing.
C7_OneEdgePerTuple ==
  [][/\ NoDuplicateEdge(drawflow')
     /\ RepeatedCall => (drawflow' = drawflow /\ domConns' = domConns /\ dispatched' = <<>>)]_vars

\* addConnection was called for an edge stored once on both sides, and it
\* returned without an event
C7_Witness ==
  /\ call.op = "addConnection"
  /\ Returned(ret)
  /\ dispatched = <<>>
  /\ Times(OutputConns(drawflow, "Home", call.args[1], call.args[3]),
           call.args[2], call.args[4]) = 1
  /\ Times(InputConns(drawflow, "Home", call.args[2], call.args[4]),
           call.args[1], call.args[3]) = 1

\* ---- C8 ---------------------------------------------------------------------------------
\* every connection entry names a node stored in the module of the node holding it
EntriesInModule(df) ==
  \A m \in DOMAIN df : \A id \in DOMAIN df[m] :
    \A e \in EntriesOf(df[m][id].outputs) \cup EntriesOf(df[m][id].inputs) :
      e.node \in DOMAIN df[m]

\* this step is addConnection between two nodes stored in different modules
CrossModuleCall ==
  /\ call'.op = "addConnection"
  /\ getModuleFromNodeId(Editor, call'.args[1]) # Undefined
  /\ getModuleFromNodeId(Editor, call'.args[2]) # Undefined
  /\ getModuleFromNodeId(Editor, call'.args[1]) # getModuleFromNodeId(Editor, call'.args[2])

\* C8: addConnection between nodes of different modules leaves the store as it
\* was and dispatches nothing, and a step taken while the active module exists,
\* on a store whose entries are all mirrored and name nodes of their own module,
\* leaves every connection entry naming a node stored in the same module as the
\* node that holds the entry.
C8_EdgesStayInModule ==
  [][/\ CrossModuleCall => (drawflow' = drawflow /\ dispatched' = <<>>)
     /\ (/\ module \in DOMAIN drawflow
         /\ Symmetric(drawflow)
         /\ EntriesInModule(drawflow)) => EntriesInModule(drawflow')]_vars

\* ---- C9 ---------------------------------------------------------------------------------
\* C9: removeSingleConnection(a, b, p, q) on two nodes of different modules
\* returns false, changes nothing and dispatches nothing; on two nodes of one
\* module that have the ports p and q it returns true exactly when a.p lists
\* {b, q}: then a.p holds one entry {b, q} less, b.q one entry {a, p} less, and
\* connectionRemoved is dispatched once; otherwise it returns false, changes
\* nothing and dispatches nothing.
C9_RemoveSingleConnection ==
  [][call'.op = "removeSingleConnection" =>
       LET a == call'.args[1]
           b == call'.args[2]
           p == call'.args[3]
           q == call'.args[4]
           ma == getModuleFromNodeId(Editor, a)
           mb == getModuleFromNodeId(Editor, b)
           outs == OutputConns(drawflow, ma, a, p)
           ins == InputConns(drawflow, ma, b, q)
           refused == /\ ret' = [kind |-> "bool", val |-> FALSE]
                      /\ drawflow' = drawflow
                      /\ dispatched' = <<>>
       IN /\ ma # mb => refused
          /\ (ma = mb /\ ma # Undefined /\ ~LacksOutput(Editor, a, p) /\ ~LacksInput(Editor, b, q))
             => IF Times(outs, b, q) >= 1
                THEN /\ ret' = [kind |-> "bool", val |-> TRUE]
                     /\ Len(OutputConns(drawflow', ma, a, p)) = Len(outs) - 1
                     /\ Times(OutputConns(drawflow', ma, a, p), b, q) = Times(outs, b, q) - 1
                     /\ Len(InputConns(drawflow', ma, b, q)) = Len(ins) - 1
                     /\ Times(InputConns(drawflow', ma, b, q), a, p) = Times(ins, a, p) - 1
                     /\ dispatched' = <<[name |-> "connectionRemoved", args |-> <<a, b, p, q>>]>>
                ELSE refused]_vars

\* ---- C10 --------------------------------------------------------------------------------
\* the call c, made in editor s, is one the operation has to reject
FailedCall(s, c) ==
  \/ /\ c.op \in {"addConnection", "removeSingleConnection"}
     /\ getModuleFromNodeId(s, c.args[1]) # Undefined
     /\ getModuleFromNodeId(s, c.args[1]) = getModuleFromNodeId(s, c.args[2])
     /\ LacksOutput(s, c.args[1], c.args[3]) \/ LacksInput(s, c.args[2], c.args[4])
  \/ c.op = "removeNodeInput" /\ LacksInput(s, c.args[1], c.args[2])
  \/ c.op = "removeNodeOutput" /\ LacksOutput(s, c.args[1], c.args[2])
  \/ /\ c.op \in {"removeNodeId", "getNodeFromId", "updateNodeDataFromId"}
     /\ getModuleFromNodeId(s, c.args[1]) = Undefined

\* C10: a call that names a missing port of a stored node (addConnection,
\* removeSingleConnection, removeNodeInput, removeNodeOutput) or a missing node
\* (removeNodeId, getNodeFromId, updateNodeDataFromId) leaves the store as it
\* was and dispatches no event.
C10_FailedCallChangesNothing ==
  [][FailedCall(Editor, call') => (drawflow' = drawflow /\ dispatched' = <<>>)]_vars

\* ---- C11 --------------------------------------------------------------------------------
\* modules alone: created, entered, removed and cleared, with nodes in them
NextHome ==
  \/ AddNode
  \/ AddModule
  \/ ChangeModule
  \/ RemoveModule
  \/ ClearModuleSelected
  \/ Clear

SpecHome == Init /\ [][NextHome]_vars

\* C11: after every step the store has the module Home, and removeModule('Home')
\* leaves the store and the active module as they were.
C11_HomeAlwaysExists ==
  [][/\ "Home" \in DOMAIN drawflow'
     /\ (call'.op = "removeModule" /\ call'.args = <<"Home">>)
          => (drawflow' = drawflow /\ module' = module)]_vars

\* ---- C12 --------------------------------------------------------------------------------
\* the store without module name, every other module as it was
WithoutModule(df, name) == Restrict(df, DOMAIN df \ {name})

\* C12: removeModule(name), name other than Home, on the active module returns
\* with Home active, name absent, and moduleChanged dispatched before
\* moduleRemoved; on a module that is not active it leaves the active module as
\* it was and the store as it was but for module name.
C12_RemoveModuleSwitchesHome ==
  [][(call'.op = "removeModule" /\ call'.args[1] # "Home") =>
       LET name == call'.args[1]
       IN IF module = name
          THEN /\ Returned(ret')
               /\ module' = "Home"
               /\ name \notin DOMAIN drawflow'
               /\ dispatched' = <<[name |-> "moduleChanged", args |-> <<"Home">>],
                                  [name |-> "moduleRemoved", args |-> <<name>>]>>
          ELSE /\ Returned(ret')
               /\ module' = module
               /\ drawflow' = WithoutModule(drawflow, name)]_vars

\* ---- C13 --------------------------------------------------------------------------------
\* C13: addModule(name) with the name of a stored module leaves the store as it
\* was and dispatches nothing; with a new name it adds the empty module name,
\* leaves every other module as it was and dispatches moduleCreated.
C13_AddModuleRejectsDuplicate ==
  [][call'.op = "addModule" =>
       LET name == call'.args[1]
       IN IF name \in DOMAIN drawflow
          THEN drawflow' = drawflow /\ dispatched' = <<>>
          ELSE /\ drawflow' = (name :> << >>) @@ drawflow
               /\ dispatched' = <<[name |-> "moduleCreated", args |-> <<name>>]>>]_vars

\* ---- C14 --------------------------------------------------------------------------------
\* graphs built over one or two modules, exported and imported back
NextRoundTrip ==
  \/ AddNode
  \/ AddConnection
  \/ AddModule
  \/ ChangeModule
  \/ Export
  \/ ImportExported

SpecRoundTrip == Init /\ [][NextRoundTrip]_vars

NextImport ==
  \/ AddNode
  \/ AddConnection
  \/ AddModule
  \/ ChangeModule
  \/ Import

SpecImport == Init /\ [][NextImport]_vars

\* the node ids of all modules of the store df
IdsOf(df) == UNION {DOMAIN df[m] : m \in DOMAIN df}

\* C15: after import(g) the store is g, whatever it was before, and the next
\* id to allocate is 1 + the largest node id of g over all its modules (1 when
\* g has no node).
C15_ImportReplaces ==
  [][(call'.op = "import" /\ call'.args[1] \in 1..Len(ImportedGraphs)) =>
       LET g == ImportedGraphs[call'.args[1]]
       IN /\ drawflow' = g.drawflow
          /\ modkeys' = g.keys
          /\ nodeId' = IF IdsOf(g.drawflow) = {} THEN 1 ELSE Max(IdsOf(g.drawflow)) + 1]_vars

\* ---- C16 --------------------------------------------------------------------------------
\* a new editor on which nodes are added, looked up and given data, nothing else
NextAlloc ==
  \/ AddNode
  \/ GetNodeFromId
  \/ UpdateNodeDataFromId

SpecAlloc == Init /\ [][NextAlloc]_vars

\* C16: on a new editor every addNode returns the id after the one the addNode
\* before it returned (1 for the first), which is the counter, and leaves the
\* counter one higher: k calls return 1, 2, ..., k.
C16_SequentialIds ==
  [][call'.op = "addNode" =>
       /\ ret' = [kind |-> "id", val |-> allocated + 1]
       /\ ret'.val = nodeId
       /\ nodeId' = nodeId + 1
       /\ DOMAIN drawflow'["Home"] = 1..ret'.val]_vars

\* the second addNode on a new editor has returned 2
C16_Witness ==
  /\ call.op = "addNode"
  /\ ret = [kind |-> "id", val |-> 2]
  /\ DOMAIN drawflow["Home"] = {1, 2}
  /\ nodeId = 3

\* ---- C17 --------------------------------------------------------------------------------
\* nodes added and removed while modules are created, entered and removed
NextIds ==
  \/ AddNode
  \/ RemoveNodeId
  \/ AddModule
  \/ ChangeModule
  \/ RemoveModule

SpecIds == Init /\ [][NextIds]_vars

\* C17: every id addNode returns is greater than every id an earlier addNode
\* returned.
C17_IdsIncrease ==
  [][(call'.op = "addNode" /\ Returned(ret')) => ret'.val > allocated]_vars

\* ---- C18 --------------------------------------------------------------------------------
\* addNode with listeners on nodeCreated: one that looks, one that throws, one
\* that adds a node itself
NextReentry ==
  \/ AddNode
  \/ OnNodeCreated

SpecReentry == Init /\ [][NextReentry]_vars

\* C18: a nodeCreated listener is called with the record stored and the counter
\* past the id it is told; the ids addNode dispatches during one call differ;
\* and addNode leaves every record stored before the call as it was and the
\* record it created with the ports it was asked for.
C18_EventsAfterMutation ==
  [][call'.op = "addNode" =>
       /\ \A i \in 1..Len(heard') :
            /\ heard'[i].args[1] \in DOMAIN heard'[i].drawflow[module]
            /\ heard'[i].nodeId > heard'[i].args[1]
       /\ \A i, j \in 1..Len(dispatched') :
            i < j => dispatched'[i].args # dispatched'[j].args
       /\ \A id \in DOMAIN drawflow[module] :
            id \in DOMAIN drawflow'[module] /\ drawflow'[module][id] = drawflow[module][id]
       /\ Len(drawflow'[module][nodeId].inputs) = call'.args[1]
       /\ Len(drawflow'[module][nodeId].outputs) = call'.args[2]]_vars

\* ---- C19 --------------------------------------------------------------------------------
\* ports removed from connected nodes while a listener watches connectionRemoved
NextObserve ==
  \/ AddNode
  \/ AddConnection
  \/ OnConnectionRemoved
  \/ RemoveNodeInput
  \/ RemoveNodeOutput

SpecObserve == Init /\ [][NextObserve]_vars

\* C19: every listener called during removeNodeInput / removeNodeOutput finds
\* the store either as it was before the call or as the call leaves it.
C19_RemovePortAtomic ==
  [][call'.op \in {"removeNodeInput", "removeNodeOutput"} =>
       \A i \in 1..Len(heard') :
         heard'[i].drawflow = drawflow \/ heard'[i].drawflow = drawflow']_vars

\* ---- C20 --------------------------------------------------------------------------------
\* listeners registered and removed by the host, and events dispatched by it
NextEvents ==
  \/ On
  \/ RemoveListener
  \/ Dispatch

SpecEvents == Init /\ [][NextEvents]_vars

\* the listeners registered for event e, in registration order
Registered(ev, e) == IF e \in DOMAIN ev THEN ev[e] ELSE <<>>

\* C20: dispatch(e, payload), none of the listeners of e being one that throws,
\* returns after it has called the listeners registered for e, each once per
\* registration, in registration order, with the payload, and no other
\* listener; with no listener registered for e it calls none and leaves the
\* store and the registrations as they were.
C20_DispatchDelivers ==
  [][(/\ call'.op = "dispatch"
      /\ \A i \in 1..Len(Registered(events, call'.args[1])) :
           Registered(events, call'.args[1])[i] # "fail") =>
       LET e == call'.args[1]
           registered == Registered(events, e)
       IN /\ Returned(ret')
          /\ Len(heard') = Len(registered)
          /\ \A i \in 1..Len(heard') :
               /\ heard'[i].listener = registered[i]
               /\ heard'[i].event = e
               /\ heard'[i].args = <<call'.args[2]>>
          /\ registered = <<>> => (drawflow' = drawflow /\ events' = events)]_vars

\* ---- C21 --------------------------------------------------------------------------------
\* listeners registered with arguments of every type, removed and called
NextRegistry ==
  \/ OnAnyValue
  \/ RemoveListener
  \/ Dispatch

SpecRegistry == Init /\ [][NextRegistry]_vars

\* C21: on(event, callback) with a callback that is not a function, or an event
\* name that is not a string, returns false without throwing and leaves the
\* registry as it was: no listener is added and no event entry is created.
C21_OnRejectsInvalid ==
  [][(/\ call'.op = "on"
      /\ \/ typeOf(call'.args[2]) # "function"
         \/ typeOf(call'.args[1]) # "string") =>
       /\ ret' = [kind |-> "bool", val |-> FALSE]
       /\ events' = events
       /\ drawflow' = drawflow]_vars

\* a rejected on() in an editor that has listeners registered
C21_Witness ==
  /\ call.op = "on"
  /\ typeOf(call.args[2]) = "function"
  /\ typeOf(call.args[1]) # "string"
  /\ ret = [kind |-> "bool", val |-> FALSE]
  /\ events # << >>

\* ---- C22 --------------------------------------------------------------------------------
\* the listeners other than callback, in order
RECURSIVE Others(_, _)
Others(listeners, callback) ==
  IF listeners = <<>> THEN <<>>
  ELSE IF listeners[1] = callback THEN Others(Tail(listeners), callback)
  ELSE <<listeners[1]>> \o Others(Tail(listeners), callback)

\* C22: removeListener(event, callback) does not throw and removes the first
\* registration of callback for event and nothing else: of k registrations
\* k-1 remain, those behind the first one where they were among the other
\* listeners, whose order is kept; the listeners of other events stay; for an
\* unknown event, or a callback that is not registered, nothing changes.
C22_RemovesFirstMatch ==
  [][call'.op = "removeListener" =>
       LET e == call'.args[1]
           cb == call'.args[2]
           old == Registered(events, e)
           new == Registered(events', e)
           hits == {i \in 1..Len(old) : old[i] = cb}
       IN /\ ~Thrown([ret |-> ret'])
          /\ drawflow' = drawflow
          /\ DOMAIN events' = DOMAIN events
          /\ \A x \in DOMAIN events : x # e => events'[x] = events[x]
          /\ hits = {} => events' = events
          /\ hits # {} =>
               /\ Len(new) = Len(old) - 1
               /\ Cardinality({i \in 1..Len(new) : new[i] = cb}) = Cardinality(hits) - 1
               /\ Others(new, cb) = Others(old, cb)
               /\ \E i \in hits :
                    /\ \A j \in hits : i <= j
                    /\ \A j \in 1..Len(new) : new[j] = IF j < i THEN old[j] ELSE old[j + 1]]_vars

\* a callback registered twice around another listener has lost its first
\* registration
C22_Witness ==
  /\ call = [op |-> "removeListener", args |-> <<"nodeCreated", "noteA">>]
  /\ Registered(events, "nodeCreated") = <<"noteB", "noteA">>
  /\ "moduleCreated" \notin DOMAIN events

\* ---- C23 --------------------------------------------------------------------------------
\* nodes added while listeners of nodeCreated are registered, one of which may throw
NextAbort ==
  \/ AddNode
  \/ OnNodeCreatedAbort

SpecAbort == Init /\ [][NextAbort]_vars

\* C23: when a listener of nodeCreated throws during the dispatch made by
\* addNode, addNode throws, the throwing listener is the last one called, and
\* the listeners called are those registered up to it, each once, in
\* registration order: none registered before it is left out and none
\* registered after it is called.
C23_ThrowAbortsDelivery ==
  [][(/\ call'.op = "addNode"
      /\ \E i \in 1..Len(heard') : heard'[i].listener = "fail") =>
       LET registered == Registered(events, "nodeCreated")
           n == Len(heard')
       IN /\ Thrown([ret |-> ret'])
          /\ heard'[n].listener = "fail"
          /\ \A i \in 1..(n - 1) : heard'[i].listener # "fail"
          /\ n <= Len(registered)
          /\ \A i \in 1..n : heard'[i].listener = registered[i]]_vars

\* ---- C24 --------------------------------------------------------------------------------
\* nodes added with any port counts, looked up and removed
NextArity ==
  \/ AddNodeAnyArity
  \/ GetNodeFromId
  \/ RemoveNodeId

SpecArity == Init /\ [][NextArity]_vars

\* C24: addNode with a negative number of inputs or of outputs fails: it
\* throws, stores no node record, leaves the id counter where it was and
\* dispatches no nodeCreated.
C24_NegativeArityRejected ==
  [][(call'.op = "addNode" /\ (call'.args[1] < 0 \/ call'.args[2] < 0)) =>
       /\ Thrown([ret |-> ret'])
       /\ drawflow' = drawflow
       /\ nodeId' = nodeId
       /\ dispatched' = <<>>]_vars

\* ---- C25 --------------------------------------------------------------------------------
\* the host keeps what getNodeFromId and export return, passes it to import,
\* and writes into it
NextCopies ==
  \/ AddNode
  \/ AddConnection
  \/ GetNodeKept
  \/ ExportKept
  \/ ImportHeld
  \/ HostMutates

SpecCopies == Init /\ [][NextCopies]_vars

\* C25: getNodeFromId and export leave the store as it is and return an object
\* that is no part of the store, equal to the node / the graph stored; after
\* import the graph object passed in is no part of the store; and a write of
\* the host into the object it holds leaves the store unchanged.
C25_CopiesIsolated ==
  [][/\ call'.op \in {"getNodeFromId", "export", "mutate"} =>
          (drawflow' = drawflow /\ modkeys' = modkeys)
     /\ (call'.op = "getNodeFromId" /\ ~Thrown([ret |-> ret'])) =>
          /\ held'.obj # StoreObject
          /\ ret'.val = drawflow[held'.module][call'.args[1]]
     /\ (call'.op = "export" /\ ~Thrown([ret |-> ret'])) =>
          /\ held'.obj # StoreObject
          /\ held'.drawflow = drawflow
     /\ call'.op = "import" => held'.obj # StoreObject]_vars

\* the host has emptied the graph it exported and imported, and the store
\* still has its nodes
C25_Witness ==
  /\ call.op = "mutate"
  /\ held.kind = "graph"
  /\ held.imported
  /\ held.drawflow = ("Home" :> << >>)
  /\ drawflow # ("Home" :> << >>)

\* ---- C26 --------------------------------------------------------------------------------
\* connection elements redrawn, with every placing of ports and reroute points
NextPaths == UpdateConnectionNodes

SpecPaths == Init /\ [][NextPaths]_vars

\* the curves between consecutive reroute points, from point i on
RECURSIVE Interior(_, _)
Interior(points, i) ==
  IF i >= Len(points) THEN <<>>
  ELSE <<Curve(points[i], points[i + 1], reroute_curvature, "other")>> \o Interior(points, i + 1)

\* the curves of a connection from its output port to its input port
Segments(anchorOut, anchorIn, points) ==
  IF points = <<>> THEN <<Curve(anchorOut, anchorIn, curvature, "openclose")>>
  ELSE <<Curve(anchorOut, points[1], reroute_curvature_start_end, "open")>>
       \o Interior(points, 1)
       \o <<Curve(points[Len(points)], anchorIn, reroute_curvature_start_end, "close")>>

\* the curves of eight numbers each that a string is made of
RECURSIVE Chunks(_)
Chunks(d) == IF Len(d) < 8 THEN <<>> ELSE <<SubSeq(d, 1, 8)>> \o Chunks(SubSeq(d, 9, Len(d)))

SameBag(a, b) ==
  /\ Len(a) = Len(b)
  /\ \A i \in 1..Len(a) :
       Cardinality({j \in 1..Len(a) : a[j] = a[i]}) = Cardinality({j \in 1..Len(b) : b[j] = a[i]})

\* C26: a connection with N reroute points is drawn with one symmetric curve
\* from port to port with the connection curvature when N = 0, and with N + 1
\* curves when N >= 1: output port to point 0 (open, start/end curvature),
\* point i to point i + 1 (other, mid curvature), point N - 1 to input port
\* (close, start/end curvature). In fix-curvature mode each curve is written
\* to its own path element, otherwise all are written to one as one string.
\* Redrawn from the output node the curves are written in that order.
C26_PathComposition ==
  [][call'.op = "updateConnectionNodes" =>
       LET side == call'.args[1]
           fix == call'.args[2]
           points == call'.args[5]
           expected == Segments(call'.args[3], call'.args[4], points)
           written == IF fix /\ points # <<>> THEN ret'.val ELSE Chunks(ret'.val[1])
       IN /\ Len(expected) = Len(points) + 1
          /\ Len(ret'.val) = IF fix /\ points # <<>> THEN Len(points) + 1 ELSE 1
          /\ SameBag(written, expected)
          /\ side = "out" => written = expected]_vars

\* three reroute points in fix-curvature mode: four path elements written
C26_Witness ==
  /\ call.op = "updateConnectionNodes"
  /\ call.args[1] = "out"
  /\ call.args[2]
  /\ Len(call.args[5]) = 3
  /\ Len(ret.val) = 4
  /\ ret.val[2] = Curve(call.args[5][1], call.args[5][2], reroute_curvature, "other")

\* ---- C27 --------------------------------------------------------------------------------
\* curves computed for every direction of the edge, curvature and mode
NextCurvature == CreateCurvature

SpecCurvature == Init /\ [][NextCurvature]_vars

\* C27: in the default mode createCurvature gives the curve from (x0, y0) to
\* (x1, y1) with the control points (x0 + |x1 - x0| * c, y0) and
\* (x1 - |x1 - x0| * c, y1), whatever the direction of the edge; for
\* (0, 0), (100, 0), c = 0.5 both control points are (50, 0); and the result
\* depends on the arguments alone.
C27_SymmetricControlPoints ==
  [][(call'.op = "createCurvature" /\ call'.args[6] = "openclose") =>
       LET x0 == call'.args[1]
           y0 == call'.args[2]
           x1 == call'.args[3]
           y1 == call'.args[4]
           c == call'.args[5]
           d == IF x1 >= x0 THEN x1 - x0 ELSE x0 - x1
       IN /\ ret'.val = <<x0, y0, x0 + (d * c) \div 10, y0, x1 - (d * c) \div 10, y1, x1, y1>>
          /\ (d * c) % 10 = 0
          /\ call' = call => ret' = ret
          /\ (x0 = 0 /\ y0 = 0 /\ x1 = 100 /\ y1 = 0 /\ c = 5) =>
               ret'.val = <<0, 0, 50, 0, 50, 0, 100, 0>>]_vars

\* the curve of the example
C27_Witness ==
  /\ call = [op |-> "createCurvature", args |-> <<0, 0, 100, 0, 5, "openclose">>]
  /\ ret.val = <<0, 0, 50, 0, 50, 0, 100, 0>>

\* ---- C28 --------------------------------------------------------------------------------
\* C28: with d = |x1 - x0|, createCurvature in the modes open, close and other
\* gives the control points (x0 + d * c, y0) and (x1 - d * c, y1) of the
\* default mode when x0 < x1; when x0 >= x1, open gives x1 + d * c for the end
\* control point, close gives x0 - d * c for the start control point, and
\* other gives both.
C28_DirectionFlip ==
  [][(call'.op = "createCurvature" /\ call'.args[6] \in {"open", "close", "other"}) =>
       LET x0 == call'.args[1]
           y0 == call'.args[2]
           x1 == call'.args[3]
           y1 == call'.args[4]
           type == call'.args[6]
           d == IF x1 >= x0 THEN x1 - x0 ELSE x0 - x1
           k == (d * call'.args[5]) \div 10
           hx1 == IF x0 >= x1 /\ type \in {"close", "other"} THEN x0 - k ELSE x0 + k
           hx2 == IF x0 >= x1 /\ type \in {"open", "other"} THEN x1 + k ELSE x1 - k
       IN ret'.val = <<x0, y0, hx1, y0, hx2, y1, x1, y1>>]_vars

\* leftward curves in the modes open and close
C28_Witness ==
  /\ call.op = "createCurvature"
  /\ \/ call.args = <<100, 0, 0, 60, 5, "open">> /\ ret.val = <<100, 0, 150, 0, 50, 60, 0, 60>>
     \/ call.args = <<100, 0, 0, 60, 5, "close">> /\ ret.val = <<100, 0, 50, 0, -50, 60, 0, 60>>

\* ---- C29 --------------------------------------------------------------------------------
\* modules created and entered while the canvas is zoomed and panned
NextView ==
  \/ AddNode
  \/ AddModule
  \/ ChangeModule
  \/ ZoomIn
  \/ ZoomOut
  \/ ClickCanvas
  \/ DragEndCanvas

SpecView == Init /\ [][NextView]_vars

\* C29: changeModule(name) makes name the active module, sets canvas_x,
\* canvas_y, pos_x, pos_y, mouse_x and mouse_y to 0 and zoom and
\* zoom_last_value to 1, and leaves the nodes of every module as they were.
C29_ChangeModuleResetsView ==
  [][call'.op = "changeModule" =>
       /\ module' = call'.args[1]
       /\ view'.canvas_x = 0 /\ view'.canvas_y = 0
       /\ view'.pos_x = 0 /\ view'.pos_y = 0
       /\ view'.mouse_x = 0 /\ view'.mouse_y = 0
       /\ view'.zoom = 10 /\ view'.zoom_last_value = 10
       /\ drawflow' = drawflow
       /\ modkeys' = modkeys]_vars

\* the module Other is entered while Home has a node
C29_Witness ==
  /\ call = [op |-> "changeModule", args |-> <<"Other">>]
  /\ module = "Other"
  /\ view = viewDefaults
  /\ ret.kind # "throw"
  /\ drawflow["Home"] # << >>

\* ---- C30 --------------------------------------------------------------------------------
NextUuid ==
  \/ UseUuid
  \/ GetUuid
  \/ AddNodeUuid

SpecUuid == Init /\ [][NextUuid]_vars

\* u has 36 characters: '-' at 8, 13, 18 and 23, '4' at 14, one of 8, 9, a, b
\* at 19 and a lowercase hexadecimal digit everywhere else
Format(u) ==
  /\ DOMAIN u = 1..36
  /\ \A i \in 0..35 :
       IF i \in {8, 13, 18, 23} THEN u[i + 1] = "-"
       ELSE IF i = 14 THEN u[i + 1] = "4"
       ELSE IF i = 19 THEN u[i + 1] \in {"8", "9", "a", "b"}
       ELSE u[i + 1] \in {"0", "1", "2", "3", "4", "5", "6", "7",
                          "8", "9", "a", "b", "c", "d", "e", "f"}

\* C30: whatever the random draws are, getUuid returns a token of the format
\* above; and with useuuid set, addNode returns such a token, stores the node
\* under it and leaves nodeId as it was.
C30_UuidFormat ==
  [][/\ call'.op = "getUuid" => Format(ret'.val)
     /\ (call'.op = "addNode" /\ useuuid) =>
          /\ ret'.kind = "id"
          /\ Format(ret'.val)
          /\ ret'.val \in DOMAIN drawflow'[module']
          /\ Len(drawflow'[module'][ret'.val].inputs) = call'.args[1]
          /\ dispatched' = <<[name |-> "nodeCreated", args |-> <<ret'.val>>]>>
          /\ nodeId' = nodeId]_vars

\* two nodes were added with useuuid set: the second under a token that starts
\* with the letter c, and nodeId is still 1
C30_Witness ==
  /\ useuuid
  /\ call.op = "addNode"
  /\ ret.kind = "id"
  /\ ret.val[1] = "c"
  /\ ret.val[20] = "8"
  /\ Cardinality(DOMAIN drawflow["Home"]) = 2
  /\ nodeId = 1

\* ---- C32 --------------------------------------------------------------------------------
NextSwitch ==
  \/ AddModule
  \/ OnModuleChanged
  \/ ChangeModuleHeard

SpecSwitch == Init /\ [][NextSwitch]_vars

\* C32: changeModule(name) dispatches moduleChanged after this.module has been
\* set to name: every listener of moduleChanged is called with name as the
\* active module, and the nodes the listeners add are stored in the module
\* name and in no other module.
C32_ModuleChangedAfterSwitch ==
  [][(call'.op = "changeModule" /\ ret'.kind # "throw") =>
       LET name == call'.args[1]
       IN /\ \A i \in 1..Len(heard') :
               heard'[i].event = "moduleChanged" => heard'[i].module = name
          /\ \A m \in DOMAIN drawflow : m # name => drawflow'[m] = drawflow[m]]_vars

\* ---- C33 --------------------------------------------------------------------------------
NextUnique ==
  \/ AddNode
  \/ RemoveNodeId
  \/ AddModule
  \/ ChangeModule
  \/ RemoveModule
  \/ Clear
  \/ Import

SpecUnique == Init /\ [][NextUnique]_vars

\* C33: with useuuid false, this.nodeId is greater than every node id stored in
\* any module, and no node id is stored in two modules.
C33_IdsGloballyUnique ==
  ~useuuid =>
    /\ \A m \in DOMAIN drawflow : \A id \in DOMAIN drawflow[m] : id < nodeId
    /\ \A m1, m2 \in DOMAIN drawflow :
         m1 # m2 => DOMAIN drawflow[m1] \cap DOMAIN drawflow[m2] = {}

\* ---- C34 --------------------------------------------------------------------------------
NextActive ==
  \/ AddNode
  \/ AddModule
  \/ ChangeModule
  \/ RemoveModule
  \/ Clear
  \/ ClearModuleSelected
  \/ Import

SpecActive == Init /\ [][NextActive]_vars

\* C34: this.module names a module of this.drawflow.drawflow in every state,
\* so that no addNode throws for want of the active module.
C34_ActiveModuleExists ==
  /\ module \in DOMAIN drawflow
  /\ call.op = "addNode" => ret.kind # "throw"

\* ---- C35 --------------------------------------------------------------------------------
NextUnregister ==
  \/ OnUnregistering
  \/ Dispatch

SpecUnregister == Init /\ [][NextUnregister]_vars

\* how often c is in the array of listeners
Count(listeners, c) == Cardinality({i \in 1..Len(listeners) : listeners[i] = c})

\* how often the listener c was called
Calls(h, c) == Cardinality({i \in 1..Len(h) : h[i].listener = c})

\* C35: in a dispatch of event e, every listener that is registered for e when
\* the dispatch starts and has none of its registrations removed during it is
\* called once per registration, whatever the listeners called before it
\* unregister.
C35_DeliveryUndisturbed ==
  [][call'.op = "dispatch" =>
       LET e == call'.args[1]
       IN \A c \in Callbacks :
            Count(Registered(events', e), c) = Count(Registered(events, e), c) =>
              Calls(heard', c) = Count(Registered(events, e), c)]_vars

\* ---- C36 --------------------------------------------------------------------------------
\* C36: a connection with N >= 1 reroute points is written as the same curves
\* in the same order, output port first and input port last, whether it is
\* redrawn from its output node or from its input node; in fix-curvature mode
\* path element i carries curve i.
C36_SegmentOrderSameBothEnds ==
  [][(call'.op = "updateConnectionNodes" /\ call'.args[5] # <<>>) =>
       LET fix == call'.args[2]
           written == IF fix THEN ret'.val ELSE Chunks(ret'.val[1])
       IN written = Segments(call'.args[3], call'.args[4], call'.args[5])]_vars

\* ---- the selected node ------------------------------------------------------------
NextSelect ==
  \/ AddNode
  \/ AddModuleNew
  \/ ChangeModule
  \/ ClickNode
  \/ DragEndNode
  \/ Key
  \/ ContextMenu
  \/ ClickDelete

SpecSelect == Init /\ [][NextSelect]_vars

\* C40: whenever node_selected is not null it refers to a node that exists in
\* the active module, after any sequence of clicks, Delete key presses,
\* delete-box clicks and changeModule calls; a Delete press never calls
\* removeNodeId on a node that is gone
C40_SelectionNeverStale ==
  /\ ui.node_selected # 0 => HasNode(Editor, module, ui.node_selected)
  /\ call.op = "key" => ret.kind # "throw"

\* ---- the mouse gestures -----------------------------------------------------------
NextGesture ==
  \/ AddNode
  \/ AddModule
  \/ ClickOutput
  \/ DragEnd
  \/ ClickNode
  \/ DragEndNode
  \/ ClickCanvas
  \/ DragEndCanvas

SpecGesture == Init /\ [][NextGesture]_vars

\* the number of times the event was dispatched
Dispatches(d, name) == Len(SelectSeq(d, LAMBDA e : e.name = name))

\* C38: the dragEnd after a click on an output port dispatches exactly one of
\* connectionCreated and connectionCancel; connectionCreated only when the
\* release target is an input of a different node and the edge did not exist,
\* and then both symmetric entries are stored; after every dragEnd the flags
\* connection, drag, drag_point and editor_selected are false and
\* connection_ele and ele_selected are null
C38_GestureResolved ==
  [][call'.op = "dragEnd" =>
       LET created == Dispatches(dispatched', "connectionCreated")
           cancelled == Dispatches(dispatched', "connectionCancel")
           output_id == ele_selected.node
           output_class == ele_selected.cls
           input_id == call'.args[1]
           input_class == call'.args[2]
       IN /\ ret'.kind # "throw"
          /\ created + cancelled = IF connection THEN 1 ELSE 0
          /\ created = 1 =>
               /\ input_id # 0 /\ input_id # output_id
               /\ DomFind(Editor, input_id, output_id, output_class, input_class) = 0
               /\ FindEntry(Get(drawflow'[module'][output_id].outputs, output_class),
                            input_id, input_class) # 0
               /\ FindEntry(Get(drawflow'[module'][input_id].inputs, input_class),
                            output_id, output_class) # 0
          /\ ~connection' /\ ~ui'.drag /\ ~ui'.drag_point /\ ~view'.editor_selected
          /\ ~ui'.connection_ele /\ ele_selected' = NoEle]_vars

\* ---- reroute points ---------------------------------------------------------------
NextReroute ==
  \/ Reroute
  \/ AddNode
  \/ AddConnection
  \/ DblclickPath
  \/ DblclickPoint

SpecReroute == Init /\ [][NextReroute]_vars

\* the list with element number i (from 1) left out, and with x put before it
Without(seq, i) == SubSeq(seq, 1, i - 1) \o SubSeq(seq, i + 1, Len(seq))
WithAt(seq, i, x) == SubSeq(seq, 1, i - 1) \o <<x>> \o SubSeq(seq, i, Len(seq))

\* the stored points of the connection the svg e draws
Stored(df, m, e) ==
  LET conns == OutputConns(df, m, e.node_out, e.output_class)
      g == FindEntry(conns, e.node_in, e.input_class)
  IN IF g = 0 THEN <<>> ELSE PointsOf(conns[g])

\* the store with the points of the connection the svg e draws left out
RECURSIVE NoPointsOf(_, _)
NoPointsOf(conns, e) ==
  IF conns = <<>> THEN <<>>
  ELSE <<IF conns[1].node = e.node_in /\ conns[1].port = e.input_class
         THEN [node |-> conns[1].node, port |-> conns[1].port] ELSE conns[1]>>
       \o NoPointsOf(Tail(conns), e)
ExceptPointsOf(df, m, e) ==
  [df EXCEPT ![m][e.node_out].outputs =
     [i \in 1..Len(@) |->
        IF @[i].name = e.output_class
        THEN [name |-> @[i].name, connections |-> NoPointsOf(@[i].connections, e)]
        ELSE @[i]]]

\* C31: createReroutePoint inserts exactly one point into, and
\* removeReroutePoint removes exactly one point from, the list of the
\* connection concerned, which is stored on its output-side record only; the
\* other points of the connection keep their relative order and coordinates,
\* and the points of every other connection are unchanged
C31_RerouteOrderPreserved ==
  [][call'.op \in {"createReroutePoint", "removeReroutePoint"} =>
       LET e == domConns[call'.args[1]]
           before == Stored(drawflow, module, e)
           after == Stored(drawflow', module', e)
       IN /\ ret'.kind # "throw"
          /\ call'.op = "createReroutePoint" =>
               \E i \in 1..Len(after) : after[i] = call'.args[3] /\ Without(after, i) = before
          /\ call'.op = "removeReroutePoint" =>
               \E i \in 1..Len(before) : Without(before, i) = after
          /\ ExceptPointsOf(drawflow', module', e) = ExceptPointsOf(drawflow, module, e)
          /\ \A m \in DOMAIN drawflow' : \A id \in DOMAIN drawflow'[m] :
               \A x \in EntriesOf(drawflow'[m][id].inputs) : "points" \notin DOMAIN x]_vars

C31_Witness ==
  /\ call.op = "removeReroutePoint"
  /\ call.args[2] = 1
  /\ ret.kind # "throw"
  /\ \E c \in 1..Len(domConns) :
       /\ Len(domConns[c].points) = 2
       /\ domConns[c].points[1] # domConns[c].points[2]
       /\ Stored(drawflow, module, domConns[c]) = domConns[c].points

\* ---- reroute points as drawn and as stored ------------------------------------------
NextAligned ==
  \/ Reroute
  \/ AddNode
  \/ AddConnection
  \/ DblclickPath
  \/ DblclickPoint
  \/ ClickPoint
  \/ PositionPoint
  \/ DragEndNode

SpecAligned == Init /\ [][NextAligned]_vars

\* the curve that path number p (from 0) of the svg e shows, counted from the
\* output port
Shown(e, p) == IF e.swapped /\ p < 2 THEN 1 - p ELSE p

\* C39: the k-th rendered point of a connection is the k-th entry of its
\* stored points, with reroute_fix_curvature or without; dragging or removing
\* the k-th rendered point updates or removes exactly stored entry k; with
\* reroute_fix_curvature a point created on segment s is stored at index s
C39_RenderedAndStoredAligned ==
  [][/\ \A c \in 1..Len(domConns') :
          domConns'[c].points = Stored(drawflow', module', domConns'[c])
     /\ call'.op \in {"createReroutePoint", "removeReroutePoint"}
          \/ (call'.op = "position" /\ ui.drag_point) =>
          LET e == domConns[call'.args[1]]
              before == Stored(drawflow, module, e)
              after == Stored(drawflow', module', e)
          IN /\ call'.op = "position" =>
                  after = [before EXCEPT ![call'.args[2] + 1] = call'.args[3]]
             /\ call'.op = "removeReroutePoint" => after = Without(before, call'.args[2] + 1)
             /\ (call'.op = "createReroutePoint" /\ ui.reroute_fix_curvature) =>
                  after = WithAt(before, Shown(e, call'.args[2]) + 1, call'.args[3])]_vars

\* ---- reroute points of renumbered ports -------------------------------------------
NextReroutePorts ==
  \/ Reroute
  \/ AddNodeSided
  \/ AddConnectionDrawn
  \/ DblclickPath
  \/ RemoveNodeInput
  \/ RemoveNodeOutput

SpecReroutePorts == Init /\ [][NextReroutePorts]_vars

\* the connection x of output port name of node id is not one of those that
\* op(n, k) removes; every connection is none of those that "none" removes
Survives(op, n, k, id, name, x) ==
  CASE op = "removeNodeInput" -> ~(x.node = n /\ x.port = k)
    [] op = "removeNodeOutput" -> ~(id = n /\ name = k)
    [] OTHER -> TRUE

\* the entries of the output ports of node id with the names of their ports, in
\* the order of the ports
RECURSIVE Named(_, _, _)
Named(conns, id, name) ==
  IF conns = <<>> THEN <<>>
  ELSE <<[id |-> id, name |-> name, conn |-> conns[1]]>> \o Named(Tail(conns), id, name)

RECURSIVE OutputEntries(_, _)
OutputEntries(outputs, id) ==
  IF outputs = <<>> THEN <<>>
  ELSE Named(outputs[1].connections, id, outputs[1].name) \o OutputEntries(Tail(outputs), id)

\* the entries after are the entries before in their order, each to the same
\* node and with the same points, but for entries that op(n, k) removes
RECURSIVE SamePoints(_, _, _, _, _)
SamePoints(before, after, op, n, k) ==
  IF before = <<>> THEN after = <<>>
  ELSE \/ /\ after # <<>>
          /\ after[1].conn.node = before[1].conn.node
          /\ PointsOf(after[1].conn) = PointsOf(before[1].conn)
          /\ SamePoints(Tail(before), Tail(after), op, n, k)
       \/ /\ ~Survives(op, n, k, before[1].id, before[1].name, before[1].conn)
          /\ SamePoints(Tail(before), after, op, n, k)

\* C37: after removeNodeInput or removeNodeOutput every connection that
\* survives has the same reroute point list on its output-side record as
\* before, whether the record was moved under a new port name or rewritten on
\* the remote node
C37_RenumberingKeepsPoints ==
  [][(call'.op \in {"removeNodeInput", "removeNodeOutput"} /\ ret'.kind # "throw") =>
       \A id \in DOMAIN drawflow[module] :
         /\ id \in DOMAIN drawflow'[module']
         /\ SamePoints(OutputEntries(drawflow[module][id].outputs, id),
                       OutputEntries(drawflow'[module'][id].outputs, id),
                       call'.op, call'.args[1], call'.args[2])]_vars

C37_Witness ==
  /\ call.op \in {"removeNodeInput", "removeNodeOutput"}
  /\ call.args[2] = 1
  /\ ret.kind # "throw"
  /\ \E id \in DOMAIN drawflow[module] :
       \E e \in EntriesOf(drawflow[module][id].outputs) :
         PointsOf(e) # <<>> /\ (call.op = "removeNodeInput" => e.node = call.args[1])
====
